---- MODULE Spec2Model ----
(***************************************************************************)
(* pg_shell: a store-backed command queue.  Clients submit shell commands  *)
(* into the commands table; executor workers dequeue them with             *)
(* SELECT ... FOR UPDATE SKIP LOCKED, run them (cd built-in or child       *)
(* process) and record the result.  The replay agent resubmits a user's    *)
(* history, the cleanup agent deletes old done commands and resets stale   *)
(* environments.                                                           *)
(*                                                                         *)
(* Text (command lines, paths, outputs) is a sequence of one-character     *)
(* strings, so that tokenisation and path arithmetic are computed.         *)
(***************************************************************************)
EXTENDS Integers, Sequences, FiniteSets, TLC

(***************************************************************************)
(* Bounds of the model.                                                    *)
(***************************************************************************)
MaxCmds == 2
MaxTime == 1

(***************************************************************************)
(* Text helpers.                                                           *)
(***************************************************************************)
NoValue == "none"

Range(s) == {s[i] : i \in 1..Len(s)}

RECURSIVE StartsWith(_, _)
StartsWith(s, p) ==
    IF p = <<>> THEN TRUE
    ELSE IF s = <<>> THEN FALSE
    ELSE Head(s) = Head(p) /\ StartsWith(Tail(s), Tail(p))

\* Does text s contain text p as a contiguous substring ("p in s").
RECURSIVE Contains(_, _)
Contains(s, p) ==
    IF StartsWith(s, p) THEN TRUE
    ELSE IF s = <<>> THEN FALSE
    ELSE Contains(Tail(s), p)

\* str.strip(): drop leading and trailing whitespace.
RECURSIVE LStrip(_)
LStrip(s) == IF s # <<>> /\ Head(s) = " " THEN LStrip(Tail(s)) ELSE s

RECURSIVE RStrip(_)
RStrip(s) ==
    IF s # <<>> /\ s[Len(s)] = " " THEN RStrip(SubSeq(s, 1, Len(s) - 1)) ELSE s

Strip(s) == RStrip(LStrip(s))

\* str(n) for a non-negative integer: its decimal digits.
Digit(d) == <<"0", "1", "2", "3", "4", "5", "6", "7", "8", "9">>[d + 1]

RECURSIVE IntToText(_)
IntToText(n) ==
    IF n < 10 THEN <<Digit(n)>> ELSE IntToText(n \div 10) \o <<Digit(n % 10)>>

(***************************************************************************)
(* shlex.split in POSIX mode over the alphabet {space, single quote,       *)
(* word characters}.  The scanner state is (tokens, current token or       *)
(* NoValue, inside-quote flag).  An unclosed quote raises ValueError.      *)
(***************************************************************************)
NoClosingQuotation ==
    <<"N","o"," ","c","l","o","s","i","n","g"," ","q","u","o","t","a","t","i","o","n">>

RECURSIVE ShlexScan(_, _, _, _)
ShlexScan(s, toks, cur, inq) ==
    IF s = <<>> THEN
        IF inq THEN [ok |-> FALSE, tokens |-> <<>>, error |-> NoClosingQuotation]
        ELSE [ok |-> TRUE,
              tokens |-> IF cur = NoValue THEN toks ELSE Append(toks, cur),
              error |-> <<>>]
    ELSE LET c == Head(s)
             cc == IF cur = NoValue THEN <<>> ELSE cur
         IN IF inq THEN
                IF c = "'" THEN ShlexScan(Tail(s), toks, cc, FALSE)
                ELSE ShlexScan(Tail(s), toks, Append(cc, c), TRUE)
            ELSE IF c = "'" THEN ShlexScan(Tail(s), toks, cc, TRUE)
            ELSE IF c = " " THEN
                ShlexScan(Tail(s), IF cur = NoValue THEN toks ELSE Append(toks, cur),
                          NoValue, FALSE)
            ELSE ShlexScan(Tail(s), toks, Append(cc, c), FALSE)

ShlexSplit(s) == ShlexScan(s, <<>>, NoValue, FALSE)

(***************************************************************************)
(* os.path on POSIX: isabs, join, normpath.                                *)
(***************************************************************************)
IsAbs(p) == p # <<>> /\ Head(p) = "/"

PathJoin(a, b) ==
    IF IsAbs(b) THEN b
    ELSE IF a = <<>> \/ a[Len(a)] = "/" THEN a \o b
    ELSE a \o <<"/">> \o b

\* Split p on "/" into its components (empty components included).
RECURSIVE SplitSlash(_, _, _)
SplitSlash(p, acc, cur) ==
    IF p = <<>> THEN Append(acc, cur)
    ELSE IF Head(p) = "/" THEN SplitSlash(Tail(p), Append(acc, cur), <<>>)
    ELSE SplitSlash(Tail(p), acc, Append(cur, Head(p)))

\* The component stack of normpath: "" and "." dropped, ".." pops a
\* component, is dropped at the root and is kept in a relative path.
RECURSIVE NormComps(_, _, _)
NormComps(comps, out, abs) ==
    IF comps = <<>> THEN out
    ELSE LET c == Head(comps) IN
         IF c = <<>> \/ c = <<".">> THEN NormComps(Tail(comps), out, abs)
         ELSE IF c # <<".", ".">> THEN NormComps(Tail(comps), Append(out, c), abs)
         ELSE IF out # <<>> /\ out[Len(out)] # <<".", ".">>
              THEN NormComps(Tail(comps), SubSeq(out, 1, Len(out) - 1), abs)
         ELSE IF out = <<>> /\ abs THEN NormComps(Tail(comps), out, abs)
         ELSE NormComps(Tail(comps), Append(out, c), abs)

RECURSIVE JoinSlash(_)
JoinSlash(comps) ==
    IF comps = <<>> THEN <<>>
    ELSE IF Len(comps) = 1 THEN Head(comps)
    ELSE Head(comps) \o <<"/">> \o JoinSlash(Tail(comps))

Normpath(p) ==
    IF p = <<>> THEN <<".">>
    ELSE LET slashes == IF ~IsAbs(p) THEN 0
                        ELSE IF StartsWith(p, <<"/", "/">>) /\ ~StartsWith(p, <<"/", "/", "/">>)
                             THEN 2 ELSE 1
             body == JoinSlash(NormComps(SplitSlash(p, <<>>, <<>>), <<>>, slashes > 0))
             lead == IF slashes = 2 THEN <<"/", "/">>
                     ELSE IF slashes = 1 THEN <<"/">> ELSE <<>>
         IN IF lead \o body = <<>> THEN <<".">> ELSE lead \o body


(***************************************************************************)
(* The deployment: users, worker processes, submitting connections, the    *)
(* sandbox file system and the programs a child process can be.            *)
(***************************************************************************)
Users == {"u1", "u2"}
Workers == {"w1", "w2"}
Conns == {"api", "replay"}

T_home_sandbox == <<"/","h","o","m","e","/","s","a","n","d","b","o","x">>
T_sub == <<"s","u","b">>
T_cd_sub == <<"c","d"," ","s","u","b">>
T_ls == <<"l","s">>

\* (variant: every path is a directory)
IsDir_Any(p) == TRUE

\* The directories that exist in the workers' file system.
ExistingDirs ==
    {<<"/">>, <<"/","h","o","m","e">>, T_home_sandbox, T_home_sandbox \o <<"/">> \o T_sub}

IsDir(p) == p \in ExistingDirs

\* Command texts clients submit.
CommandTexts == {T_cd_sub, T_ls}

\* Further command texts a dequeued row can hold: cd with an absolute
\* argument, with "..", with no and with two arguments, an unbalanced quote,
\* and a program that does not exist.
T_cd_root == <<"c","d"," ","/">>
T_cd_up == <<"c","d"," ",".",".">>
T_cd_only == <<"c","d">>
T_cd_two == <<"c","d"," ","/"," ","/">>
T_quote == <<"l","s"," ","'">>
T_x == <<"x">>
HandlerTexts == CommandTexts \cup {T_cd_root, T_cd_up, T_cd_only, T_cd_two, T_quote, T_x}

\* command.strip(), shlex.split(command) and the cd resolution
\* (isabs, join, normpath), tabulated over the texts and directories of
\* this deployment.
StripOf == [t \in HandlerTexts |-> Strip(t)]

\* (variant: a tokeniser that accepts every text as one token)
ShlexSplitOf_Lenient ==
    [s \in {Strip(t) : t \in HandlerTexts} |-> [ok |-> TRUE, tokens |-> <<s>>, error |-> <<>>]]

ShlexSplitOf == [s \in {Strip(t) : t \in HandlerTexts} |-> ShlexSplit(s)]
CdArguments == UNION {Range(ShlexSplit(Strip(t)).tokens) : t \in HandlerTexts}
NormpathOf ==
    [d \in ExistingDirs, p \in CdArguments |->
        IF IsAbs(p) THEN Normpath(p) ELSE Normpath(PathJoin(d, p))]

\* A nullable column holds {} (NULL) or {v}.
Null == {}
Some(v) == {v}
The(s) == CHOOSE v \in s : TRUE

\* An environment map is a set of <<key, value>> pairs.
EmptyEnv == {}
T_FOO == <<"F","O","O">>
T_BAR == <<"B","A","R">>
T_PATH == <<"P","A","T","H">>
T_bin == <<"/","b","i","n">>
FooEnv == {<<T_FOO, T_BAR>>}
\* os.environ of a worker process.
OsEnviron == {<<T_PATH, T_bin>>}

Keys(m) == {kv[1] : kv \in m}
\* dict.update: entries of upd replace entries of base with the same key.
DictUpdate(base, upd) == {kv \in base : kv[1] \notin Keys(upd)} \cup upd

DEFAULT_LISTEN_CHANNEL == "new_command"
CustomChannel == "custom_command_channel"
\* LISTEN_CHANNEL_ENV in the environment of each worker process: unset
\* (NoValue) or a channel name.
ListenChannelEnv(w) == IF w = "w2" THEN CustomChannel ELSE NoValue

\* The sandbox home: default of a new snapshot and the cwd cleanup resets to.
SandboxHome == T_home_sandbox

VARIABLES
    now,        \* the store's clock (now())
    seq,        \* last value of the commands id sequence
    cmds,       \* committed rows of commands: id -> row
    envs,       \* environments: user -> Null or Some(row)
    config,     \* pg_shell_config['listen_channel']: Null or Some(name)
    txn,        \* open submitting transaction of a connection: Null or Some(...)
    locked,     \* row lock a worker's open transaction holds (0: none)
    pc,         \* where each worker process is
    row,        \* the row fetch_pending returned to a worker: Null or Some(row)
    listen,     \* channel a worker's connection LISTENs on (NoValue: none)
    sock,       \* notifications arrived on a worker's socket, not yet read
    rp,         \* the replay agent
    fetchCount, \* history: how often fetch_pending returned each id
    execlog,    \* history: what handle_command did for each id
    submitEnv,  \* history: the user's environment when each id was submitted
    forkReply,  \* what the last call of fork_session gave its caller
    tail,       \* the client's tail_output: its since-id and what it printed
    cl,         \* the cleanup agent: its position in cleanup_once
    sub         \* one run of run_subprocess: the loop and its child process

mainvars == <<now, seq, cmds, envs, config, txn, locked, pc, row, listen, sock, rp,
              fetchCount, execlog, submitEnv, forkReply, tail, cl>>

vars == <<mainvars, sub>>

CmdIds == 1..MaxCmds

NoReplay == [pc |-> "idle", user |-> NoValue, start |-> 0, hist |-> <<>>, idx |-> 1,
             total |-> 0, queued |-> <<>>, report |-> NoValue]

\* tail_output has not been called.
NoTail == [pc |-> "idle", user |-> NoValue, since |-> {}, last_id |-> {}, printed |-> <<>>]

\* cleanup_once is not running.
NoCleanup == [pc |-> "idle", days |-> 0, at |-> 0, user_ids |-> {}]

\* No run of run_subprocess is followed step by step.
NoSub == [pc |-> "idle"]

MainInit ==
    /\ now = 0
    /\ seq = 0
    /\ cmds = <<>>
    /\ envs = [u \in Users |->
                 IF u = "u1"
                 THEN Some([cwd |-> SandboxHome, env |-> FooEnv, updated_at |-> 0])
                 ELSE Null]
    /\ config = Null
    /\ txn = [k \in Conns |-> Null]
    /\ locked = [w \in Workers |-> 0]
    /\ pc = [w \in Workers |-> "start"]
    /\ row = [w \in Workers |-> Null]
    /\ listen = [w \in Workers |-> NoValue]
    /\ sock = [w \in Workers |-> {}]
    /\ rp = NoReplay
    /\ fetchCount = [c \in CmdIds |-> 0]
    /\ execlog = [c \in CmdIds |-> {}]
    /\ submitEnv = [c \in CmdIds |-> Null]
    /\ forkReply = NoValue
    /\ tail = NoTail
    /\ cl = NoCleanup

Init == MainInit /\ sub = NoSub

(***************************************************************************)
(* The store's clock.                                                      *)
(***************************************************************************)
Tick ==
    /\ now < MaxTime
    /\ now' = now + 1
    /\ UNCHANGED <<tail, cl, forkReply, sub, submitEnv, seq, cmds, envs, config, txn, locked, pc, row, listen, sock, rp,
                   fetchCount, execlog>>

(***************************************************************************)
(* submit_command(user_id, command): insert a pending row whose snapshots  *)
(* are copied from the user's environment (defaults if there is none) and  *)
(* queue a notification of the new id on the configured channel.  Row and  *)
(* notification become visible when the calling transaction commits.       *)
(***************************************************************************)
ConfiguredChannel == IF config = Null THEN DEFAULT_LISTEN_CHANNEL ELSE The(config)

SnapshotOf(u) ==
    IF envs[u] = Null THEN [cwd |-> SandboxHome, env |-> EmptyEnv]
    ELSE [cwd |-> The(envs[u]).cwd, env |-> The(envs[u]).env]

NewRow(id, u, text) ==
    [id |-> id, user_id |-> u, command |-> text, status |-> "pending",
     submitted_at |-> now, output |-> Null, exit_code |-> Null,
     cwd_snapshot |-> SnapshotOf(u).cwd, env_snapshot |-> SnapshotOf(u).env]

\* (variant: the notification always goes to the default channel)
SubmitNotification_DefaultChannel(id) ==
    [channel |-> DEFAULT_LISTEN_CHANNEL, payload |-> IntToText(id)]

SubmitNotification(id) == [channel |-> ConfiguredChannel, payload |-> IntToText(id)]

\* The statement SELECT submit_command(u, text) on connection k.
SubmitCommand(k, u, text) ==
    /\ txn[k] = Null
    /\ seq + 1 \in DOMAIN submitEnv   \* the ids the model follows
    /\ seq' = seq + 1
    /\ txn' = [txn EXCEPT ![k] = Some([row |-> NewRow(seq + 1, u, text),
                                       notify |-> SubmitNotification(seq + 1)])]
    /\ submitEnv' = [submitEnv EXCEPT ![seq + 1] = Some(SnapshotOf(u))]

\* What the commit of a submitting transaction publishes.
Subscribers(n) == {w \in Workers : listen[w] = n.channel}

Deliver(n) == [w \in Workers |-> IF w \in Subscribers(n) THEN sock[w] \cup {n} ELSE sock[w]]

\* COMMIT on connection k: the row is visible and its notification is sent.
CommitSubmit(k) ==
    /\ txn[k] # Null
    /\ LET t == The(txn[k]) IN
        /\ cmds' = (t.row.id :> t.row) @@ cmds
        /\ sock' = Deliver(t.notify)
    /\ txn' = [txn EXCEPT ![k] = Null]

\* A client call through the API: one transaction around submit_command.
ApiSubmit(u, text) ==
    /\ SubmitCommand("api", u, text)
    /\ UNCHANGED <<tail, cl, forkReply, sub, now, cmds, envs, config, locked, pc, row, listen, sock, rp,
                   fetchCount, execlog>>

ApiCommit ==
    /\ CommitSubmit("api")
    /\ UNCHANGED <<tail, cl, forkReply, sub, submitEnv, now, seq, envs, config, locked, pc, row, listen, rp,
                   fetchCount, execlog>>


(***************************************************************************)
(* Executor worker: start-up.                                              *)
(***************************************************************************)
\* resolve_listen_channel: an override from the process environment is
\* written to pg_shell_config, otherwise the configured value (or the
\* default) is used.
ResolveListenChannel(override) ==
    IF override # NoValue THEN override ELSE ConfiguredChannel

UpdateChannelConfig(override) ==
    IF override # NoValue THEN Some(override) ELSE config

\* main up to the loop: get_conn, setup_listener (resolve, LISTEN, commit).
SetupListener(w) ==
    /\ pc[w] = "start"
    /\ listen' = [listen EXCEPT ![w] = ResolveListenChannel(ListenChannelEnv(w))]
    /\ config' = UpdateChannelConfig(ListenChannelEnv(w))
    /\ pc' = [pc EXCEPT ![w] = "fetch"]
    /\ UNCHANGED <<tail, cl, forkReply, sub, submitEnv, now, seq, cmds, envs, txn, locked, row, sock, rp, fetchCount, execlog>>

(***************************************************************************)
(* fetch_pending: SELECT ... WHERE status = 'pending' ORDER BY submitted_at *)
(* FOR UPDATE SKIP LOCKED LIMIT 1, then UPDATE ... 'running' and COMMIT.   *)
(***************************************************************************)
\* (variant: the WHERE clause does not filter on status)
PendingRows_AnyStatus == DOMAIN cmds

PendingRows == {c \in DOMAIN cmds : cmds[c].status = "pending"}

\* (variant: the SELECT takes no notice of other transactions' locks)
LockedByOther_Unseen(w, c) == FALSE

LockedByOther(w, c) == \E v \in Workers \ {w} : locked[v] = c

\* ORDER BY submitted_at LIMIT 1: the rows that can come first.  Rows with
\* the same submitted_at are in no defined order.
OrderBySubmittedAt(S) ==
    {c \in S : \A d \in S : cmds[c].submitted_at <= cmds[d].submitted_at}

\* (variant: FOR UPDATE without SKIP LOCKED waits for the lock on the first
\* pending row)
SelectPending_Blocking(w) ==
    LET first == OrderBySubmittedAt(PendingRows)
    IN [blocked |-> \E c \in first : LockedByOther(w, c),
        rows |-> {c \in first : ~LockedByOther(w, c)}]

\* The SELECT of fetch_pending for worker w: whether it has to wait for a
\* lock of another transaction, and the rows it can return (none: {}).
SelectPending(w) ==
    [blocked |-> FALSE,
     rows |-> OrderBySubmittedAt({c \in PendingRows : ~LockedByOther(w, c)})]

\* Statements on a worker's connection read what has arrived on its socket
\* (into conn.notifies); the socket is then no longer readable.
ConsumeInput(w) == [sock EXCEPT ![w] = {}]

\* fetch_pending, lines 101-112, no row: the SELECT returns nothing.
FetchNone(w) ==
    /\ pc[w] = "fetch"
    /\ ~SelectPending(w).blocked
    /\ SelectPending(w).rows = {}
    /\ row' = [row EXCEPT ![w] = Null]
    /\ sock' = ConsumeInput(w)
    /\ pc' = [pc EXCEPT ![w] = "no_row"]
    /\ UNCHANGED <<tail, cl, forkReply, sub, submitEnv, now, seq, cmds, envs, config, txn, locked, listen, rp,
                   fetchCount, execlog>>

\* fetch_pending, lines 116-117: conn.commit() and return None.  The
\* notifications the store held back during the transaction come with the
\* reply to the commit and are read with it.
FetchNoneCommit(w) ==
    /\ pc[w] = "no_row"
    /\ sock' = ConsumeInput(w)
    /\ pc' = [pc EXCEPT ![w] = "wait"]
    /\ UNCHANGED <<tail, cl, forkReply, sub, submitEnv, now, seq, cmds, envs, config, txn, locked, row, listen, rp,
                   fetchCount, execlog>>

\* fetch_pending, lines 101-112, a row: it is locked by this transaction.
FetchSelect(w) ==
    /\ pc[w] = "fetch"
    /\ ~SelectPending(w).blocked
    /\ \E c \in SelectPending(w).rows :
        /\ locked' = [locked EXCEPT ![w] = c]
        /\ row' = [row EXCEPT ![w] = Some(cmds[c])]
    /\ sock' = ConsumeInput(w)
    /\ pc' = [pc EXCEPT ![w] = "locked"]
    /\ UNCHANGED <<tail, cl, forkReply, sub, submitEnv, now, seq, cmds, envs, config, txn, listen, rp, fetchCount, execlog>>

\* fetch_pending, lines 113-117: UPDATE status = 'running', COMMIT, return.
FetchCommit(w) ==
    /\ pc[w] = "locked"
    /\ LET c == locked[w] IN
        /\ cmds' = IF c \in DOMAIN cmds
                   THEN [cmds EXCEPT ![c].status = "running"] ELSE cmds
        /\ fetchCount' = [fetchCount EXCEPT ![c] = @ + 1]
    /\ locked' = [locked EXCEPT ![w] = 0]
    /\ pc' = [pc EXCEPT ![w] = "handle"]
    /\ UNCHANGED <<tail, cl, forkReply, sub, submitEnv, now, seq, envs, config, txn, row, listen, sock, rp, execlog>>

(***************************************************************************)
(* wait_for_notify(conn, POLL_INTERVAL): select on the connection's socket *)
(* returns when it is readable or when the timeout has passed.             *)
(***************************************************************************)
\* (variant: select without a timeout)
WaitForNotify_NoTimeout(w) ==
    /\ pc[w] = "wait"
    /\ sock[w] # {}
    /\ sock' = [sock EXCEPT ![w] = {}]
    /\ pc' = [pc EXCEPT ![w] = "fetch"]
    /\ UNCHANGED <<tail, cl, forkReply, sub, submitEnv, now, seq, cmds, envs, config, txn, locked, row, listen, rp,
                   fetchCount, execlog>>

WaitForNotify(w) ==
    /\ pc[w] = "wait"
    /\ \/ sock[w] # {}     \* readable: conn.poll(), conn.notifies.clear()
       \/ sock[w] = {}     \* the timeout expires
    /\ sock' = [sock EXCEPT ![w] = {}]
    /\ pc' = [pc EXCEPT ![w] = "fetch"]
    /\ UNCHANGED <<tail, cl, forkReply, sub, submitEnv, now, seq, cmds, envs, config, txn, locked, row, listen, rp,
                   fetchCount, execlog>>


(***************************************************************************)
(* handle_command and what it calls.                                       *)
(***************************************************************************)
\* The character 0x00 in a child's output.
NulChar == "NUL"
T_cd == <<"c","d">>
T_cd_colon == <<"c","d",":"," ">>
T_no_such == <<":"," ","N","o"," ","s","u","c","h"," ","f","i","l","e"," ","o","r"," ",
               "d","i","r","e","c","t","o","r","y">>
T_errno == <<"[","E","r","r","n","o"," ","2","]">>

\* Executables a child process can be started from.
Programs == {T_ls, T_cd}

\* What a started child can end with (exit status, merged output).  The
\* loop that collects it is modelled step by step in SubSpec.
ChildResults ==
    {[exit_code |-> 0, text |-> T_sub],
     [exit_code |-> 2, text |-> <<>>],
     [exit_code |-> 0, text |-> <<NulChar>>]}

\* run_subprocess(command, cwd, env_snapshot): Popen raises for an empty
\* argument list, an unknown executable or a missing cwd; otherwise the
\* child runs and (exit_code, text) is returned.
RunSubprocess(command, cwd, env_snapshot) ==
    LET cmd_list == ShlexSplitOf[command].tokens IN
    IF cmd_list = <<>> \/ cmd_list[1] \notin Programs \/ ~IsDir(cwd)
    THEN {[raised |-> TRUE, exit_code |-> 1, text |-> T_errno]}
    ELSE {[raised |-> FALSE, exit_code |-> x.exit_code, text |-> x.text] : x \in ChildResults}

\* The environment of the child: os.environ updated with env_snapshot.
ChildEnv(env_snapshot) == DictUpdate(OsEnviron, env_snapshot)

\* The directory handle_command works in for row r: Popen's cwd and the
\* base a relative cd argument is joined to.
\* (variant: the user's current directory instead of the snapshot)
ExecCwd_Live(r) == SnapshotOf(r.user_id).cwd

ExecCwd(r) == r.cwd_snapshot

\* cd: the directory the argument resolves to.
ResolveCd(r, path) ==
    NormpathOf[ExecCwd(r), path]

\* update_command: the driver refuses a parameter that holds a NUL
\* character (ValueError), and the store has no text with one.
UpdateCommandRaises(output) == NulChar \in Range(output)

\* (variant: the UPDATE also sets cwd_snapshot)
UpdateCommand_Snapshot(c, status, output, exit_code) ==
    IF c \in DOMAIN cmds
    THEN [cmds EXCEPT ![c].status = status, ![c].output = Some(output),
                      ![c].exit_code = Some(exit_code), ![c].cwd_snapshot = output]
    ELSE cmds

UpdateCommand(c, status, output, exit_code) ==
    IF c \in DOMAIN cmds
    THEN [cmds EXCEPT ![c].status = status, ![c].output = Some(output),
                      ![c].exit_code = Some(exit_code)]
    ELSE cmds

\* (variant: update_cwd returns without its commit, other sessions do not
\* see the new cwd)
UpdateCwd_Uncommitted(u, cwd) == envs

\* (variant: the UPDATE has no WHERE clause)
UpdateCwd_AllUsers(u, cwd) ==
    [v \in Users |->
        IF envs[v] = Null THEN Null
        ELSE Some([The(envs[v]) EXCEPT !.cwd = cwd, !.updated_at = now])]

\* update_cwd: UPDATE environments SET cwd, updated_at WHERE user_id.
UpdateCwd(u, cwd) ==
    IF envs[u] = Null THEN envs
    ELSE [envs EXCEPT ![u] = Some([The(envs[u]) EXCEPT !.cwd = cwd, !.updated_at = now])]

\* An exception that leaves handle_command leaves main: the finally clause
\* closes the connection and the process ends.
CloseConn(w) ==
    /\ listen' = [listen EXCEPT ![w] = NoValue]
    /\ sock' = [sock EXCEPT ![w] = {}]

\* The call update_command(conn, id, status, output, exit_code) that ends
\* handle_command, and the return to the loop of main.
RecordResult(w, c, status, output, exit_code) ==
    IF UpdateCommandRaises(output)
    THEN /\ cmds' = cmds
         /\ pc' = [pc EXCEPT ![w] = "crashed"]
         /\ row' = [row EXCEPT ![w] = Null]
         /\ CloseConn(w)
    ELSE /\ cmds' = UpdateCommand(c, status, output, exit_code)
         /\ pc' = [pc EXCEPT ![w] = "fetch"]
         /\ row' = [row EXCEPT ![w] = Null]
         /\ UNCHANGED <<listen, sock>>

Log(c, entry) == [execlog EXCEPT ![c] = @ \cup {entry}]

\* What the history records of one call of handle_command: the path taken
\* (parse, cd, spawn), the directory used, for a spawn the text and the
\* environment given to run_subprocess and what it returned or raised, and
\* the cwd of the user's environment at that moment.
LogEntry(kind, r, cwd, command, env, raised, exit_code, text) ==
    [kind |-> kind, cwd |-> cwd, command |-> command, env |-> env, raised |-> raised,
     exit_code |-> exit_code, text |-> text, live |-> SnapshotOf(r.user_id).cwd]

\* (variant: cd with any number of arguments is the built-in)
IsCdBuiltin_AnyArity(tokens) == Len(tokens) >= 2 /\ tokens[1] = T_cd

\* line 212: exactly cd and one argument.
IsCdBuiltin(tokens) == Len(tokens) = 2 /\ tokens[1] = T_cd

\* (variant: every completed child counts as done)
StatusOf_Done(exit_code) == "done"

\* line 247
StatusOf(exit_code) == IF exit_code = 0 THEN "done" ELSE "failed"

HandleCommand(w) ==
    /\ pc[w] = "handle"
    /\ LET r == The(row[w])
           command == StripOf[r.command]
           sp == ShlexSplitOf[command]
       IN IF ~sp.ok THEN
              \* lines 200-210: the text does not tokenise
              /\ RecordResult(w, r.id, "failed", sp.error, 1)
              /\ execlog' = Log(r.id, LogEntry("parse", r, <<>>, <<>>, {}, FALSE, 1, sp.error))
              /\ envs' = envs
          ELSE IF IsCdBuiltin(sp.tokens) THEN
              \* lines 212-228: the cd built-in
              LET path == sp.tokens[2]
                  new_cwd == ResolveCd(r, path)
              IN /\ execlog' = Log(r.id, LogEntry("cd", r, ExecCwd(r), <<>>, {}, FALSE, 0, <<>>))
                 /\ IF ~IsDir(new_cwd)
                    THEN /\ RecordResult(w, r.id, "failed",
                                         T_cd_colon \o path \o T_no_such, 1)
                         /\ envs' = envs
                    ELSE /\ envs' = UpdateCwd(r.user_id, new_cwd)
                         /\ pc' = [pc EXCEPT ![w] = "cd_done"]
                         /\ UNCHANGED <<cmds, row, listen, sock>>
          ELSE
              \* lines 233-248: a child process
              /\ \E res \in RunSubprocess(command, ExecCwd(r), r.env_snapshot) :
                    /\ IF res.raised
                       THEN RecordResult(w, r.id, "failed", res.text, 1)
                       ELSE RecordResult(w, r.id, StatusOf(res.exit_code),
                                         res.text, res.exit_code)
                    /\ execlog' = Log(r.id, LogEntry("spawn", r, ExecCwd(r), command,
                                                     ChildEnv(r.env_snapshot), res.raised,
                                                     res.exit_code, res.text))
              /\ envs' = envs
    /\ UNCHANGED <<tail, cl, forkReply, sub, submitEnv, now, seq, config, txn, locked, rp, fetchCount>>

\* handle_command, line 229: update_command(..., "done", "", 0) after the
\* commit of update_cwd.
HandleCdDone(w) ==
    /\ pc[w] = "cd_done"
    /\ RecordResult(w, The(row[w]).id, "done", <<>>, 0)
    /\ UNCHANGED <<tail, cl, forkReply, sub, submitEnv, now, seq, envs, config, txn, locked, rp, fetchCount, execlog>>

(***************************************************************************)
(* fork_session(user_id, source_command_id): the user's environment is     *)
(* overwritten (or created) from the snapshots of one of his commands.     *)
(***************************************************************************)
\* (variant: only the cwd is taken from the command)
ForkSession_CwdOnly(u, c) ==
    /\ c \in DOMAIN cmds
    /\ cmds[c].user_id = u
    /\ envs' = [envs EXCEPT ![u] = Some([cwd |-> cmds[c].cwd_snapshot,
                                         env |-> SnapshotOf(u).env,
                                         updated_at |-> now])]
    /\ forkReply' = "ok"
    /\ UNCHANGED <<tail, cl, sub, submitEnv, now, seq, cmds, config, txn, locked, pc, row, listen, sock, rp,
                   fetchCount, execlog>>

ForkSession(u, c) ==
    /\ c \in DOMAIN cmds
    /\ cmds[c].user_id = u
    /\ envs' = [envs EXCEPT ![u] = Some([cwd |-> cmds[c].cwd_snapshot,
                                         env |-> cmds[c].env_snapshot,
                                         updated_at |-> now])]
    /\ forkReply' = "ok"
    /\ UNCHANGED <<tail, cl, sub, submitEnv, now, seq, cmds, config, txn, locked, pc, row, listen, sock, rp,
                   fetchCount, execlog>>

\* (variant: the owner of the command is not compared with the caller)
ForkSessionFails_Unowned(u, c) ==
    /\ ~(c \in DOMAIN cmds /\ cmds[c].user_id = u)
    /\ envs' = IF c \in DOMAIN cmds
               THEN [envs EXCEPT ![u] = Some([cwd |-> cmds[c].cwd_snapshot,
                                              env |-> cmds[c].env_snapshot,
                                              updated_at |-> now])]
               ELSE envs
    /\ forkReply' = IF c \in DOMAIN cmds THEN "ok" ELSE "error"
    /\ UNCHANGED <<tail, cl, sub, submitEnv, now, seq, cmds, config, txn, locked, pc, row, listen, sock, rp,
                   fetchCount, execlog>>

\* fork_session for a command id that does not exist or belongs to another
\* user: an error goes to the caller and nothing is written.
ForkSessionFails(u, c) ==
    /\ ~(c \in DOMAIN cmds /\ cmds[c].user_id = u)
    /\ forkReply' = "error"
    /\ UNCHANGED <<tail, cl, sub, submitEnv, now, seq, cmds, envs, config, txn, locked, pc, row, listen, sock,
                   rp, fetchCount, execlog>>

(***************************************************************************)
(* cleanup_once(conn, days): delete done commands submitted more than days *)
(* ago, reset environments not updated for days.                           *)
(***************************************************************************)
OldDone(days) ==
    {c \in DOMAIN cmds : cmds[c].status = "done" /\ cmds[c].submitted_at < now - days}

StaleUsers(days) ==
    {u \in Users : envs[u] # Null /\ The(envs[u]).updated_at < now - days}

CleanupDays == {0}

CleanupOnce(days) ==
    /\ ~(OldDone(days) = {} /\ StaleUsers(days) = {})
    /\ cmds' = [c \in DOMAIN cmds \ OldDone(days) |-> cmds[c]]
    /\ envs' = [u \in Users |->
                  IF u \in StaleUsers(days)
                  THEN Some([cwd |-> SandboxHome, env |-> EmptyEnv, updated_at |-> now])
                  ELSE envs[u]]
    /\ UNCHANGED <<tail, cl, forkReply, sub, submitEnv, now, seq, config, txn, locked, pc, row, listen, sock, rp,
                   fetchCount, execlog>>

(***************************************************************************)
(* replay_commands(user_id, start_id).                                     *)
(***************************************************************************)
RECURSIVE SortedIds(_)
SortedIds(S) ==
    IF S = {} THEN <<>>
    ELSE LET m == CHOOSE x \in S : \A y \in S : x <= y
         IN <<m>> \o SortedIds(S \ {m})

\* (variant: the WHERE clause does not name the user)
History_AnyUser(u, s) ==
    LET ids == SortedIds({c \in DOMAIN cmds : c >= s})
    IN [i \in 1..Len(ids) |-> [id |-> ids[i], command |-> cmds[ids[i]].command]]

\* SELECT id, command FROM commands WHERE user_id = u AND id >= s ORDER BY id
History(u, s) ==
    LET ids == SortedIds({c \in DOMAIN cmds : cmds[c].user_id = u /\ c >= s})
    IN [i \in 1..Len(ids) |-> [id |-> ids[i], command |-> cmds[ids[i]].command]]

\* lines 11-21: connect, run the history query.
ReplayStart(u, s) ==
    /\ rp.pc \in {"idle", "done"}
    /\ txn["replay"] = Null
    /\ rp' = [pc |-> "run", user |-> u, start |-> s, hist |-> History(u, s), idx |-> 1,
              total |-> 0, queued |-> <<>>, report |-> NoValue]
    /\ UNCHANGED <<tail, cl, forkReply, sub, submitEnv, now, seq, cmds, envs, config, txn, locked, pc, row, listen, sock,
                   fetchCount, execlog>>

\* lines 36-40: SELECT submit_command(user_id, command) for the next row.
ReplaySubmit ==
    /\ rp.pc = "run"
    /\ rp.idx <= Len(rp.hist)
    /\ SubmitCommand("replay", rp.user, rp.hist[rp.idx].command)
    /\ UNCHANGED <<tail, cl, forkReply, sub, now, cmds, envs, config, locked, pc, row, listen, sock, rp,
                   fetchCount, execlog>>

\* (variant: the loop counts the row without committing it)
ReplayCommit_NoCommit ==
    /\ rp.pc = "run"
    /\ txn["replay"] # Null
    /\ rp' = [rp EXCEPT !.idx = @ + 1, !.total = @ + 1,
                        !.queued = Append(@, The(txn["replay"]).row.id)]
    /\ txn' = [txn EXCEPT !["replay"] = Null]
    /\ UNCHANGED <<tail, cl, forkReply, sub, submitEnv, now, seq, cmds, sock, envs, config, locked, pc, row, listen,
                   fetchCount, execlog>>

\* (variant: the history query is run again after every resubmission)
ReplayCommit_Rereads ==
    /\ rp.pc = "run"
    /\ CommitSubmit("replay")
    /\ LET t == The(txn["replay"])
           store == (t.row.id :> t.row) @@ cmds
           ids == SortedIds({c \in DOMAIN store : store[c].user_id = rp.user /\ c >= rp.start})
       IN rp' = [rp EXCEPT !.idx = @ + 1, !.total = @ + 1,
                           !.queued = Append(@, t.row.id),
                           !.hist = [i \in 1..Len(ids) |->
                                        [id |-> ids[i], command |-> store[ids[i]].command]]]
    /\ UNCHANGED <<tail, cl, forkReply, sub, submitEnv, now, seq, envs, config, locked, pc, row, listen, fetchCount, execlog>>

\* lines 40-43: new_id = fetchone()[0]; commit; count.
ReplayCommit ==
    /\ rp.pc = "run"
    /\ CommitSubmit("replay")
    /\ rp' = [rp EXCEPT !.idx = @ + 1, !.total = @ + 1,
                        !.queued = Append(@, The(txn["replay"]).row.id)]
    /\ UNCHANGED <<tail, cl, forkReply, sub, submitEnv, now, seq, envs, config, locked, pc, row, listen, fetchCount, execlog>>

\* (variant: the report does not depend on the count)
ReplayFinish_AlwaysReplayed ==
    /\ rp.pc = "run"
    /\ txn["replay"] = Null
    /\ rp.idx > Len(rp.hist)
    /\ rp' = [NoReplay EXCEPT !.pc = "done", !.report = "Replayed commands"]
    /\ UNCHANGED <<tail, cl, forkReply, sub, submitEnv, now, seq, cmds, envs, config, txn, locked, pc, row, listen, sock,
                   fetchCount, execlog>>

\* The process is stopped (signal, crash, lost connection) anywhere in the
\* loop of lines 26-43; the store rolls back what the submission
\* connection had not committed.
ReplayInterrupt ==
    /\ rp.pc = "run"
    /\ rp' = [rp EXCEPT !.pc = "interrupted"]
    /\ txn' = [txn EXCEPT !["replay"] = Null]
    /\ UNCHANGED <<tail, cl, forkReply, sub, submitEnv, now, seq, cmds, envs, config, locked, pc, row, listen, sock,
                   fetchCount, execlog>>

\* lines 27-29, 44-47: no rows left; the with block of line 24 ends with
\* nothing left to commit; report.
ReplayFinish ==
    /\ rp.pc = "run"
    /\ txn["replay"] = Null
    /\ rp.idx > Len(rp.hist)
    /\ rp' = [NoReplay EXCEPT !.pc = "done",
                              !.report = IF rp.total = 0 THEN "no commands to replay"
                                         ELSE "Replayed commands"]
    /\ UNCHANGED <<tail, cl, forkReply, sub, submitEnv, now, seq, cmds, envs, config, txn, locked, pc, row, listen, sock,
                   fetchCount, execlog>>

(***************************************************************************)
(* The system.  Spec is the queue with both workers; OpsSpec adds fork,    *)
(* replay and cleanup around one worker.                                   *)
(***************************************************************************)
OpsWorkers == {"w1"}

\* Users submitting in Spec.
QueueUsers == {"u1"}

Submitting ==
    \/ \E u \in QueueUsers, text \in CommandTexts : ApiSubmit(u, text)
    \/ ApiCommit

Working(W) ==
    \/ \E w \in W : SetupListener(w)
    \/ \E w \in W : FetchNone(w)
    \/ \E w \in W : FetchNoneCommit(w)
    \/ \E w \in W : FetchSelect(w)
    \/ \E w \in W : FetchCommit(w)
    \/ \E w \in W : WaitForNotify(w)
    \/ \E w \in W : HandleCommand(w)
    \/ \E w \in W : HandleCdDone(w)

Next ==
    \/ Tick
    \/ Submitting
    \/ Working(Workers)

Spec == Init /\ [][Next]_vars

OpsNext ==
    \/ Tick
    \/ \E u \in Users, text \in CommandTexts : ApiSubmit(u, text)
    \/ ApiCommit
    \/ Working(OpsWorkers)
    \/ \E u \in Users, c \in CmdIds : ForkSession(u, c)
    \/ \E u \in Users, c \in CmdIds : ForkSessionFails(u, c)
    \/ \E d \in CleanupDays : CleanupOnce(d)
    \/ \E u \in Users, s \in CmdIds : ReplayStart(u, s)
    \/ ReplaySubmit
    \/ ReplayCommit
    \/ ReplayFinish

OpsSpec == Init /\ [][OpsNext]_vars


(***************************************************************************)
(* The queue under fair scheduling of the worker processes: a worker that  *)
(* has not ended takes its next step.                                      *)
(***************************************************************************)
WorkerStep(w) ==
    \/ SetupListener(w)
    \/ FetchNone(w)
    \/ FetchNoneCommit(w)
    \/ FetchSelect(w)
    \/ FetchCommit(w)
    \/ WaitForNotify(w)
    \/ HandleCommand(w)
    \/ HandleCdDone(w)

LiveSpec == Spec /\ \A w \in Workers : WF_vars(WorkerStep(w))

(***************************************************************************)
(* Properties of the queue.                                                *)
(***************************************************************************)
Terminal(st) == st \in {"done", "failed"}

\* C1: under any interleaving of the workers' fetch_pending calls, a command
\* is locked by at most one worker at a time, is returned to at most one
\* worker and is executed at most once.
C1_AtMostOneWorker ==
    /\ \A c \in CmdIds : fetchCount[c] <= 1
    /\ \A c \in CmdIds : Cardinality(execlog[c]) <= 1
    /\ \A w \in Workers, v \in Workers :
          (w # v /\ locked[w] # 0) => locked[w] # locked[v]
    /\ \A w \in Workers, v \in Workers :
          (w # v /\ row[w] # Null /\ row[v] # Null) => The(row[w]).id # The(row[v]).id

\* Both workers are inside fetch_pending at once, each holding the lock of
\* a different pending row: the second SELECT skipped the locked row.
C1_Witness ==
    /\ locked["w1"] # 0
    /\ locked["w2"] # 0
    /\ locked["w1"] # locked["w2"]

\* Every worker process has ended.
AllWorkersEnded == \A w \in Workers : pc[w] = "crashed"

\* C3: with a worker that keeps running its loop, every pending command is
\* eventually dequeued, notified or not: the wait on the channel times out.
C3_PendingIsDequeued ==
    \A c \in CmdIds :
        (c \in DOMAIN cmds /\ cmds[c].status = "pending")
            ~> ((c \in DOMAIN cmds /\ cmds[c].status # "pending") \/ AllWorkersEnded)

\* A worker waits with nothing to read on its socket while a command is
\* pending that no worker holds: its notification went elsewhere.
C3_Witness ==
    \E w \in Workers :
        /\ pc[w] = "wait"
        /\ sock[w] = {}
        /\ PendingRows # {}
        /\ \A v \in Workers : locked[v] = 0 /\ pc[v] \in {"wait", "crashed", "start"}

\* C4: fetch_pending returns, among the pending rows no other worker has
\* locked, the one with the oldest submitted_at and, among rows with the same
\* submitted_at, the one with the lowest id.
C4_OldestThenLowestId ==
    [][\A w \in Workers :
          (pc[w] = "fetch" /\ pc'[w] = "locked") =>
              LET avail == {c \in PendingRows : ~LockedByOther(w, c)}
                  got == locked'[w]
              IN /\ got \in avail
                 /\ \A d \in avail :
                       \/ cmds[got].submitted_at < cmds[d].submitted_at
                       \/ (cmds[got].submitted_at = cmds[d].submitted_at /\ got <= d)]_vars

\* C5: a worker inside fetch_pending can always take its next step, whatever
\* row locks the other workers hold: the SELECT returns a row or none, and
\* the UPDATE and COMMIT go through.
C5_DequeueNeverBlocks ==
    \A w \in Workers :
        /\ pc[w] = "fetch" => (~SelectPending(w).blocked
                               /\ ENABLED (FetchNone(w) \/ FetchSelect(w)))
        /\ pc[w] = "locked" => ENABLED FetchCommit(w)

\* A worker is about to run the SELECT while the only pending row is locked
\* by the other worker.
C5_Witness ==
    \E w \in Workers, v \in Workers :
        /\ pc[w] = "fetch"
        /\ locked[v] # 0
        /\ PendingRows = {locked[v]}

\* C2: in every step a command's status stays as it is or moves
\* pending -> running or running -> done/failed, and a command that is done or
\* failed keeps its status, output and exit_code.
C2_StatusMovesForward ==
    [][\A c \in DOMAIN cmds :
          c \in DOMAIN cmds' =>
              LET old == cmds[c]
                  new == cmds'[c]
              IN /\ \/ new.status = old.status
                    \/ old.status = "pending" /\ new.status = "running"
                    \/ old.status = "running" /\ Terminal(new.status)
                 /\ Terminal(old.status) =>
                        /\ new.status = old.status
                        /\ new.output = old.output
                        /\ new.exit_code = old.exit_code]_vars

\* One command has ended done and another failed, each fetched once.
C2_Witness ==
    \E c \in DOMAIN cmds, d \in DOMAIN cmds :
        /\ cmds[c].status = "done"
        /\ cmds[d].status = "failed"
        /\ fetchCount[c] = 1
        /\ fetchCount[d] = 1

\* C6: the cwd_snapshot and env_snapshot of every command in the table are
\* the values its submission wrote, whatever has happened since.
C6_SnapshotsKept ==
    \A c \in DOMAIN cmds :
        /\ submitEnv[c] # Null
        /\ cmds[c].cwd_snapshot = The(submitEnv[c]).cwd
        /\ cmds[c].env_snapshot = The(submitEnv[c]).env

\* A command has ended and its user's environment has moved away from the
\* command's snapshot since.
C6_Witness ==
    \E c \in DOMAIN cmds :
        /\ Terminal(cmds[c].status)
        /\ SnapshotOf(cmds[c].user_id).cwd # cmds[c].cwd_snapshot

\* C7: handle_command resolves a relative cd against, and starts a child in,
\* the directory the user's environment held when the command was submitted,
\* and gives a child the environment variables it held then.
C7_RunsAgainstSubmitTimeEnv ==
    \A c \in CmdIds : \A e \in execlog[c] :
        e.kind \in {"cd", "spawn"} =>
            /\ submitEnv[c] # Null
            /\ e.cwd = The(submitEnv[c]).cwd
            /\ e.kind = "spawn" => e.env = ChildEnv(The(submitEnv[c]).env)

\* A child was started while the user's environment pointed somewhere other
\* than the command's snapshot.
C7_Witness ==
    \E c \in CmdIds : \E e \in execlog[c] : e.kind = "spawn" /\ e.live # e.cwd

\* C8: the notification submit_command queues is on the configured channel
\* with the new id as text, and a notification arrives at a subscriber only
\* in the step that commits the row it names, on the channel the subscriber
\* listens on.
C8_NotifiedRowIsVisible ==
    [][/\ \A k \in Conns :
            (txn[k] = Null /\ txn'[k] # Null) =>
                The(txn'[k]).notify = [channel |-> ConfiguredChannel,
                                       payload |-> IntToText(The(txn'[k]).row.id)]
       /\ \A w \in Workers : \A n \in sock'[w] \ sock[w] :
            /\ n.channel = listen'[w]
            /\ \E c \in DOMAIN cmds' : n.payload = IntToText(c)
            /\ \E k \in Conns : txn[k] # Null /\ The(txn[k]).notify = n]_vars

\* A worker has received a notification on the channel its start-up wrote to
\* the configuration.
C8_Witness ==
    \E w \in Workers : \E n \in sock[w] :
        /\ n.channel = CustomChannel
        /\ config = Some(CustomChannel)

\* C9: no command ends a worker process.
C9_NoCommandEndsWorker == \A w \in Workers : pc[w] # "crashed"

(***************************************************************************)
(* run_subprocess step by step: the read loop of the executor and the      *)
(* child process it started.  Output is counted in bytes; a returned text  *)
(* is the notice, that many bytes and the truncation marker.               *)
(***************************************************************************)
\* The settings COMMAND_TIMEOUT (seconds) and MAX_OUTPUT_BYTES the worker
\* reads from its environment, here in clock ticks and bytes of this model.
COMMAND_TIMEOUT == 2
MAX_OUTPUT_BYTES == 2
ReadChunk == 4096
TRUNCATION_SUFFIX == <<".",".",".","[","t","r","u","n","c","a","t","e","d","]">>
TimeoutExit == 124
KilledExit == -9

\* Bounds of a run: the clock, the bytes a child writes, what a pipe holds.
MaxClock == 4
MaxChildBytes == 5
PipeCapacity == 2

Fds == <<"stdout", "stderr">>
ChildExitCodes == {0, 1}

\* f"Timed out after {COMMAND_TIMEOUT}s\n"
TimedOutNotice ==
    <<"T","i","m","e","d"," ","o","u","t"," ","a","f","t","e","r"," ">>
        \o IntToText(COMMAND_TIMEOUT) \o <<"s", "\n">>

Bytes(n) == [i \in 1..n |-> "x"]

Min(a, b) == IF a < b THEN a ELSE b

\* The state after Popen returned: deadline set, nothing read yet.
SubStart ==
    [pc |-> "top",
     clock |-> 0,
     deadline |-> 0 + COMMAND_TIMEOUT,
     alive |-> TRUE,                 \* the child has not exited
     code |-> 0,                     \* its exit status once it has
     open |-> {"stdout", "stderr"},  \* streams whose write end is open
     buf |-> [f \in {"stdout", "stderr"} |-> 0],  \* bytes waiting in each pipe
     written |-> 0,                  \* bytes the child has written in all
     fds |-> {"stdout", "stderr"},
     output |-> 0,                   \* len(output)
     limit_exceeded |-> FALSE,
     timed_out |-> FALSE,
     expiredAlive |-> FALSE,         \* history: alive when the deadline passed
     exit_code |-> 0,
     text |-> <<>>]

SubInit == MainInit /\ sub = SubStart

SubRunning == sub.pc \in {"top", "select", "wait"}

\* time passes
SubTick ==
    /\ SubRunning
    /\ sub.clock < MaxClock
    /\ sub' = [sub EXCEPT !.clock = @ + 1,
                          !.expiredAlive = @ \/ (sub.clock = sub.deadline /\ sub.alive)]
    /\ UNCHANGED mainvars

\* The child writes one byte to a stream.
ChildWrite(f) ==
    /\ SubRunning
    /\ sub.alive
    /\ f \in sub.open
    /\ sub.buf[f] < PipeCapacity
    /\ sub.written < MaxChildBytes
    /\ sub' = [sub EXCEPT !.buf[f] = @ + 1, !.written = @ + 1]
    /\ UNCHANGED mainvars

\* The child closes a stream.
ChildClose(f) ==
    /\ SubRunning
    /\ sub.alive
    /\ f \in sub.open
    /\ sub' = [sub EXCEPT !.open = @ \ {f}]
    /\ UNCHANGED mainvars

\* The child exits; the streams it had open are closed.
ChildExit(code) ==
    /\ SubRunning
    /\ sub.alive
    /\ sub' = [sub EXCEPT !.alive = FALSE, !.code = code, !.open = {}]
    /\ UNCHANGED mainvars

\* proc.kill(): SIGKILL to a child that has not exited.
Kill(st) ==
    IF st.alive THEN [st EXCEPT !.alive = FALSE, !.code = KilledExit, !.open = {}]
    ELSE st

\* lines 161-164: the loop condition, the deadline check.
LoopTop ==
    /\ sub.pc = "top"
    /\ sub' = IF sub.fds = {} THEN [sub EXCEPT !.pc = "wait"]
              ELSE IF sub.clock > sub.deadline /\ ~sub.timed_out
                   THEN [Kill(sub) EXCEPT !.timed_out = TRUE, !.pc = "select"]
                   ELSE [sub EXCEPT !.pc = "select"]
    /\ UNCHANGED mainvars

\* select: the streams with data or at end of file.
Ready(st) == {f \in st.fds : st.buf[f] > 0 \/ f \notin st.open}

\* (variant: a chunk that exactly fills the buffer sets limit_exceeded)
ReadFd_MarksAtCap(st, f) ==
    LET chunk == Min(st.buf[f], ReadChunk) IN
    IF chunk = 0 THEN [st EXCEPT !.fds = @ \ {f}]
    ELSE LET drained == [st EXCEPT !.buf[f] = @ - chunk] IN
         IF st.output < MAX_OUTPUT_BYTES THEN
             LET remaining == MAX_OUTPUT_BYTES - st.output IN
             IF chunk >= remaining
             THEN [drained EXCEPT !.output = @ + remaining, !.limit_exceeded = TRUE]
             ELSE [drained EXCEPT !.output = @ + chunk]
         ELSE [drained EXCEPT !.limit_exceeded = TRUE]

\* (variant: a stream is no longer read once the buffer is full)
ReadFd_StopsAtCap(st, f) ==
    LET chunk == Min(st.buf[f], ReadChunk) IN
    IF st.output >= MAX_OUTPUT_BYTES /\ chunk > 0 THEN [st EXCEPT !.limit_exceeded = TRUE]
    ELSE IF chunk = 0 THEN [st EXCEPT !.fds = @ \ {f}]
    ELSE LET drained == [st EXCEPT !.buf[f] = @ - chunk]
             remaining == MAX_OUTPUT_BYTES - st.output
         IN IF chunk > remaining
            THEN [drained EXCEPT !.output = @ + remaining, !.limit_exceeded = TRUE]
            ELSE [drained EXCEPT !.output = @ + chunk]

\* lines 167-179 for one ready stream: read1(4096) and the cap.
ReadFd(st, f) ==
    LET chunk == Min(st.buf[f], ReadChunk) IN
    IF chunk = 0 THEN [st EXCEPT !.fds = @ \ {f}]
    ELSE LET drained == [st EXCEPT !.buf[f] = @ - chunk] IN
         IF st.output < MAX_OUTPUT_BYTES THEN
             LET remaining == MAX_OUTPUT_BYTES - st.output IN
             IF chunk > remaining
             THEN [drained EXCEPT !.output = @ + remaining, !.limit_exceeded = TRUE]
             ELSE [drained EXCEPT !.output = @ + chunk]
         ELSE [drained EXCEPT !.limit_exceeded = TRUE]

RECURSIVE ReadAll(_, _, _)
ReadAll(st, ready, i) ==
    IF i > Len(Fds) THEN st
    ELSE IF Fds[i] \in ready THEN ReadAll(ReadFd(st, Fds[i]), ready, i + 1)
    ELSE ReadAll(st, ready, i + 1)

\* lines 165-179: select with a 0.1 s timeout, then the ready streams.
SelectRead ==
    /\ sub.pc = "select"
    /\ sub' = [ReadAll(sub, Ready(sub), 1) EXCEPT !.pc = "top"]
    /\ UNCHANGED mainvars

\* lines 181-189: proc.wait() returns once the child has exited.
ReturnText(st) ==
    (IF st.timed_out THEN TimedOutNotice ELSE <<>>)
        \o Bytes(st.output)
        \o (IF st.limit_exceeded THEN TRUNCATION_SUFFIX ELSE <<>>)

ProcWait ==
    /\ sub.pc = "wait"
    /\ ~sub.alive
    /\ sub' = [sub EXCEPT !.pc = "done",
                          !.exit_code = IF sub.timed_out THEN TimeoutExit ELSE sub.code,
                          !.text = ReturnText(sub)]
    /\ UNCHANGED mainvars

SubNext ==
    \/ SubTick
    \/ \E f \in {"stdout", "stderr"} : ChildWrite(f)
    \/ \E f \in {"stdout", "stderr"} : ChildClose(f)
    \/ \E code \in ChildExitCodes : ChildExit(code)
    \/ LoopTop
    \/ SelectRead
    \/ ProcWait

SubSpec == SubInit /\ [][SubNext]_vars

\* C10: run_subprocess is not waiting for a live child after the deadline,
\* and a run whose child was alive when the deadline passed returns 124 and
\* a text that starts with the timed-out notice.
C10_DeadlineEnforced ==
    /\ (sub.pc = "wait" /\ sub.alive) => sub.clock <= sub.deadline
    /\ (sub.pc = "done" /\ sub.expiredAlive) =>
            (sub.exit_code = TimeoutExit /\ StartsWith(sub.text, TimedOutNotice))

\* C11: the text run_subprocess returns, which handle_command stores as the
\* command's output, is no longer than MAX_OUTPUT_BYTES plus the length of
\* the truncation marker; stated for the runs that filled the buffer, where
\* the length does not depend on how small the cap of this model is.
C11_OutputWithinCap ==
    (sub.pc = "done" /\ sub.limit_exceeded) =>
        Len(sub.text) <= MAX_OUTPUT_BYTES + Len(TRUNCATION_SUFFIX)

\* C12: the returned text is the first MAX_OUTPUT_BYTES bytes the child wrote
\* to stdout and stderr, followed by the truncation marker exactly when the
\* child wrote more than that (after the notice, when the run timed out).
C12_MarkerIffOverCap ==
    sub.pc = "done" =>
        /\ sub.limit_exceeded <=> (sub.written > MAX_OUTPUT_BYTES)
        /\ sub.text = (IF sub.timed_out THEN TimedOutNotice ELSE <<>>)
                          \o Bytes(Min(sub.written, MAX_OUTPUT_BYTES))
                          \o (IF sub.written > MAX_OUTPUT_BYTES
                              THEN TRUNCATION_SUFFIX ELSE <<>>)

\* A run has returned whose child wrote one byte more than the cap.
C12_Witness ==
    /\ sub.pc = "done"
    /\ sub.written = MAX_OUTPUT_BYTES + 1
    /\ sub.limit_exceeded

(***************************************************************************)
(* handle_command on one dequeued row: worker w1 has been handed command 1 *)
(* by fetch_pending; its text, owner and snapshots are drawn from the      *)
(* texts, users and directories of the deployment.  A user without an      *)
(* environment row got the defaults as snapshots.                          *)
(***************************************************************************)
T_home_sandbox_sub == T_home_sandbox \o <<"/">> \o T_sub

EnvRows ==
    {Null} \cup {Some([cwd |-> x, env |-> FooEnv, updated_at |-> 0]) :
                     x \in {SandboxHome, T_home_sandbox_sub}}

DequeuedRow(u, text, d, es) ==
    [id |-> 1, user_id |-> u, command |-> text, status |-> "pending",
     submitted_at |-> 0, output |-> Null, exit_code |-> Null,
     cwd_snapshot |-> d, env_snapshot |-> es]

HandleInit ==
    /\ \E text \in HandlerTexts, u \in Users, d \in ExistingDirs, es \in {EmptyEnv, FooEnv} :
       \E e \in [Users -> EnvRows] :
          /\ e[u] = Null => (d = SandboxHome /\ es = EmptyEnv)
          /\ envs = e
          /\ cmds = (1 :> [DequeuedRow(u, text, d, es) EXCEPT !.status = "running"])
          /\ row = [w \in Workers |-> IF w = "w1" THEN Some(DequeuedRow(u, text, d, es))
                                       ELSE Null]
          /\ submitEnv = [c \in CmdIds |-> IF c = 1 THEN Some([cwd |-> d, env |-> es])
                                           ELSE Null]
    /\ now = 0
    /\ seq = 1
    /\ config = Null
    /\ txn = [k \in Conns |-> Null]
    /\ locked = [w \in Workers |-> 0]
    /\ pc = [w \in Workers |-> IF w = "w1" THEN "handle" ELSE "start"]
    /\ listen = [w \in Workers |-> IF w = "w1" THEN DEFAULT_LISTEN_CHANNEL ELSE NoValue]
    /\ sock = [w \in Workers |-> {}]
    /\ rp = NoReplay
    /\ fetchCount = [c \in CmdIds |-> IF c = 1 THEN 1 ELSE 0]
    /\ execlog = [c \in CmdIds |-> {}]
    /\ forkReply = NoValue
    /\ tail = NoTail
    /\ cl = NoCleanup
    /\ sub = NoSub

HandleNext ==
    \/ HandleCommand("w1")
    \/ HandleCdDone("w1")

HandleSpec == HandleInit /\ [][HandleNext]_vars

(***************************************************************************)
(* Properties of handle_command.  The form of a row's text is read off the *)
(* tokens of shlex.split(command.strip()).                                 *)
(***************************************************************************)
RowTokens(r) == ShlexSplit(Strip(r.command))

\* The text is cd and exactly one argument.
ExactCd(r) ==
    /\ RowTokens(r).ok
    /\ Len(RowTokens(r).tokens) = 2
    /\ RowTokens(r).tokens[1] = <<"c", "d">>

\* The text starts with the token cd and has no or several arguments.
CdOtherArity(r) ==
    /\ RowTokens(r).ok
    /\ Len(RowTokens(r).tokens) >= 1
    /\ Len(RowTokens(r).tokens) # 2
    /\ RowTokens(r).tokens[1] = <<"c", "d">>

\* The path the argument of cd resolves to against the row's cwd_snapshot.
CdTarget(r) ==
    LET path == RowTokens(r).tokens[2]
    IN IF IsAbs(path) THEN Normpath(path) ELSE Normpath(PathJoin(r.cwd_snapshot, path))

\* C13: handle_command for cd <argument> whose target is an existing
\* directory starts no child and sets the cwd of the user's environment to
\* the target, and the command is then recorded done with exit_code 0 and
\* empty output.
C13_CdToExistingDir ==
    [][\A w \in Workers :
          /\ (pc[w] = "handle" /\ pc'[w] # "handle" /\ ExactCd(The(row[w]))
                  /\ CdTarget(The(row[w])) \in ExistingDirs) =>
                LET r == The(row[w]) IN
                /\ pc'[w] = "cd_done"
                /\ envs'[r.user_id] # Null
                /\ The(envs'[r.user_id]).cwd = CdTarget(r)
                /\ \A e \in execlog'[r.id] : e.kind # "spawn"
          /\ (pc[w] = "cd_done" /\ pc'[w] # "cd_done") =>
                LET r == The(row[w]) IN
                /\ cmds'[r.id].status = "done"
                /\ cmds'[r.id].output = Some(<<>>)
                /\ cmds'[r.id].exit_code = Some(0)]_vars

\* C14: handle_command for cd <argument> whose target is not an existing
\* directory records the command failed with exit_code 1 and output
\* "cd: <argument>: No such file or directory", starts no child and leaves
\* the environments as they are.
C14_CdToMissingDir ==
    [][\A w \in Workers :
          (pc[w] = "handle" /\ pc'[w] # "handle" /\ ExactCd(The(row[w]))
              /\ CdTarget(The(row[w])) \notin ExistingDirs) =>
            LET r == The(row[w]) IN
            /\ cmds'[r.id].status = "failed"
            /\ cmds'[r.id].exit_code = Some(1)
            /\ cmds'[r.id].output =
                   Some(<<"c","d",":"," ">> \o RowTokens(r).tokens[2] \o T_no_such)
            /\ envs' = envs
            /\ \A e \in execlog'[r.id] : e.kind # "spawn"]_vars

\* A cd to a missing directory has been recorded.
C14_Witness ==
    \E c \in DOMAIN cmds :
        /\ cmds[c].status = "failed"
        /\ ExactCd(cmds[c])
        /\ CdTarget(cmds[c]) \notin ExistingDirs
        /\ \E e \in execlog[c] : e.kind = "cd"

\* C15: handle_command for a text whose first token is cd, with no or with
\* several arguments, hands the whole text to run_subprocess, records the
\* status that goes with what it returned (failed with exit_code 1 when it
\* raised) and leaves the environments as they are.
C15_CdOtherArityIsSpawned ==
    [][\A w \in Workers :
          (pc[w] = "handle" /\ pc'[w] # "handle" /\ CdOtherArity(The(row[w]))) =>
            LET r == The(row[w]) IN
            /\ envs' = envs
            /\ pc'[w] # "cd_done"
            /\ \E e \in execlog'[r.id] :
                  /\ e.kind = "spawn"
                  /\ e.command = Strip(r.command)
                  /\ pc'[w] = "fetch" =>
                        /\ cmds'[r.id].exit_code = Some(IF e.raised THEN 1 ELSE e.exit_code)
                        /\ cmds'[r.id].status = "done" <=> (~e.raised /\ e.exit_code = 0)
                        /\ cmds'[r.id].status = "failed" <=> (e.raised \/ e.exit_code # 0)]_vars

\* cd with two arguments ran as a child process and ended done.
C15_Witness ==
    \E c \in DOMAIN cmds :
        /\ cmds[c].command = T_cd_two
        /\ cmds[c].status = "done"
        /\ \E e \in execlog[c] : e.kind = "spawn" /\ e.command = T_cd_two

\* C16: handle_command for a text that shlex.split rejects records the
\* command failed with exit_code 1 and the error text as output, starts no
\* child and leaves the environments as they are.
C16_ParseFailureIsRecorded ==
    [][\A w \in Workers :
          (pc[w] = "handle" /\ pc'[w] # "handle" /\ ~RowTokens(The(row[w])).ok) =>
            LET r == The(row[w]) IN
            /\ pc'[w] = "fetch"
            /\ cmds'[r.id].status = "failed"
            /\ cmds'[r.id].exit_code = Some(1)
            /\ cmds'[r.id].output = Some(RowTokens(r).error)
            /\ RowTokens(r).error = NoClosingQuotation
            /\ envs' = envs
            /\ \A e \in execlog'[r.id] : e.kind = "parse"]_vars

\* A text with an unbalanced quote has been recorded failed.
C16_Witness ==
    \E c \in DOMAIN cmds :
        /\ cmds[c].command = T_quote
        /\ cmds[c].status = "failed"
        /\ \E e \in execlog[c] : e.kind = "parse"

\* C17: a command whose child ran to its end and whose result was recorded
\* has the output and exit_code run_subprocess returned, and is done exactly
\* when that exit_code is 0, failed otherwise.
C17_StatusFollowsExitCode ==
    \A c \in DOMAIN cmds : \A e \in execlog[c] :
        (e.kind = "spawn" /\ ~e.raised /\ Terminal(cmds[c].status)) =>
            /\ cmds[c].output = Some(e.text)
            /\ cmds[c].exit_code = Some(e.exit_code)
            /\ cmds[c].status = "done" <=> e.exit_code = 0
            /\ cmds[c].status = "failed" <=> e.exit_code # 0

\* A child ended with a non-zero exit status and the command is failed.
C17_Witness ==
    \E c \in DOMAIN cmds : \E e \in execlog[c] :
        /\ e.kind = "spawn"
        /\ ~e.raised
        /\ e.exit_code # 0
        /\ cmds[c].status = "failed"

(***************************************************************************)
(* Properties of the environments table.                                   *)
(***************************************************************************)
\* A step of the store alone: no submission, dequeue, execution or replay.
StoreOnlyStep ==
    /\ pc' = pc
    /\ row' = row
    /\ locked' = locked
    /\ seq' = seq
    /\ txn' = txn
    /\ rp' = rp

\* C18: a step that changes the environment of user u is a successful cd of
\* a command of u, a fork for u (the row becomes the snapshots of one of
\* u's commands) or a cleanup (the row is reset); every other step leaves
\* every environment as it is.
C18_OnlyCdForkCleanupWrite ==
    [][\A u \in Users :
          envs'[u] # envs[u] =>
              \/ \E w \in Workers :
                    /\ pc[w] = "handle"
                    /\ pc'[w] = "cd_done"
                    /\ The(row[w]).user_id = u
                    /\ ExactCd(The(row[w]))
                    /\ CdTarget(The(row[w])) \in ExistingDirs
              \/ /\ StoreOnlyStep
                 /\ forkReply' = "ok"
                 /\ \E c \in DOMAIN cmds :
                       /\ cmds[c].user_id = u
                       /\ envs'[u] = Some([cwd |-> cmds[c].cwd_snapshot,
                                           env |-> cmds[c].env_snapshot,
                                           updated_at |-> now])
              \/ /\ StoreOnlyStep
                 /\ forkReply' = forkReply
                 /\ envs[u] # Null
                 /\ envs'[u] = Some([cwd |-> SandboxHome, env |-> EmptyEnv,
                                     updated_at |-> now])]_vars

\* A cd of a user has succeeded and moved the user's environment, and a
\* later cd of the same user has failed and left it there.
C18_Witness ==
    \E c \in DOMAIN cmds, d \in DOMAIN cmds :
        /\ cmds[c].user_id = cmds[d].user_id
        /\ \E e \in execlog[c] : e.kind = "cd"
        /\ cmds[c].status = "done"
        /\ \E e \in execlog[d] : e.kind = "cd"
        /\ cmds[d].status = "failed"
        /\ envs[cmds[d].user_id] # Null
        /\ The(envs[cmds[d].user_id]).cwd = cmds[d].cwd_snapshot

\* C19: a successful fork_session(u, c) leaves u's environment with the
\* cwd_snapshot and env_snapshot of command c, whether or not u had an
\* environment, leaves the other environments and the commands as they
\* are, and repeated on its own result changes neither cwd nor env.
C19_ForkSetsSnapshot ==
    [][\A u \in Users, c \in CmdIds :
          ForkSession(u, c) =>
              /\ forkReply' = "ok"
              /\ envs'[u] # Null
              /\ The(envs'[u]).cwd = cmds[c].cwd_snapshot
              /\ The(envs'[u]).env = cmds[c].env_snapshot
              /\ \A v \in Users \ {u} : envs'[v] = envs[v]
              /\ cmds' = cmds
              /\ (envs[u] # Null /\ The(envs[u]).cwd = cmds[c].cwd_snapshot
                     /\ The(envs[u]).env = cmds[c].env_snapshot) =>
                    /\ The(envs'[u]).cwd = The(envs[u]).cwd
                    /\ The(envs'[u]).env = The(envs[u]).env]_vars

\* fork_session has created the environment of the user that had none.
C19_Witness ==
    /\ forkReply = "ok"
    /\ envs["u2"] # Null

\* C20: fork_session(u, c) for a command id that does not exist or that
\* belongs to another user gives its caller an error and leaves every
\* environment and every command as it is.
C20_FailedForkChangesNothing ==
    [][\A u \in Users, c \in CmdIds :
          (~(c \in DOMAIN cmds /\ cmds[c].user_id = u) /\ ForkSessionFails(u, c)) =>
              /\ forkReply' = "error"
              /\ envs' = envs
              /\ cmds' = cmds]_vars

\* A call of fork_session has failed while the only commands are those of
\* the other user.
C20_Witness ==
    /\ forkReply = "error"
    /\ cmds # <<>>
    /\ \A c \in DOMAIN cmds : cmds[c].user_id = "u1"
    /\ envs["u2"] = Null

(***************************************************************************)
(* replay_commands over a stored history: the store holds up to MaxHistory *)
(* commands of any owner, text and status, submitted before the replay     *)
(* starts; other clients submit while the replay runs, and the replay      *)
(* process can be stopped anywhere in its loop.                            *)
(***************************************************************************)
MaxHistory == 3

MaxReplayIds == 7

ReplayIds == 1..MaxReplayIds

HistoryStatuses == {"pending", "done"}

StoredRow(c, u, text, status) ==
    [id |-> c, user_id |-> u, command |-> text, status |-> status,
     submitted_at |-> 0,
     output |-> IF status = "done" THEN Some(<<>>) ELSE Null,
     exit_code |-> IF status = "done" THEN Some(0) ELSE Null,
     cwd_snapshot |-> SandboxHome, env_snapshot |-> EmptyEnv]

ReplayInit ==
    /\ \E n \in 0..MaxHistory :
       \E us \in [1..n -> Users], ts \in [1..n -> CommandTexts],
          ss \in [1..n -> HistoryStatuses] :
          /\ cmds = [c \in 1..n |-> StoredRow(c, us[c], ts[c], ss[c])]
          /\ seq = n
    /\ now = 1
    /\ envs = [u \in Users |-> Null]
    /\ config = Null
    /\ txn = [k \in Conns |-> Null]
    /\ locked = [w \in Workers |-> 0]
    /\ pc = [w \in Workers |-> "start"]
    /\ row = [w \in Workers |-> Null]
    /\ listen = [w \in Workers |-> NoValue]
    /\ sock = [w \in Workers |-> {}]
    /\ rp = NoReplay
    /\ fetchCount = [c \in ReplayIds |-> 0]
    /\ execlog = [c \in ReplayIds |-> {}]
    /\ submitEnv = [c \in ReplayIds |-> Null]
    /\ forkReply = NoValue
    /\ tail = NoTail
    /\ cl = NoCleanup
    /\ sub = NoSub

ReplayNext ==
    \/ \E u \in Users, s \in 1..(MaxHistory + 1) : rp.pc = "idle" /\ ReplayStart(u, s)
    \/ ReplaySubmit
    \/ ReplayCommit
    \/ ReplayFinish
    \/ ReplayInterrupt
    \/ \E u \in Users : rp.pc = "run" /\ ApiSubmit(u, T_x)
    \/ ApiCommit

ReplaySpec == ReplayInit /\ [][ReplayNext]_vars

\* The commands that were stored before the replay started.
Originals == {c \in DOMAIN cmds : cmds[c].submitted_at < now}

\* The originals replay(user, start) is about, in ascending id order.
Matching(u, start) ==
    SortedIds({c \in Originals : cmds[c].user_id = u /\ c >= start})

\* The commands stored since the replay started, other than those of the
\* other clients.
Resubmitted(store) ==
    {c \in DOMAIN store : store[c].submitted_at >= now /\ store[c].command # T_x}

\* The resubmissions in the store are the first m originals, in order.
QueuedIsPrefix(m) ==
    /\ m <= Len(rp.hist)
    /\ Len(rp.queued) = m
    /\ Resubmitted(cmds) = Range(rp.queued)
    /\ \A i \in 1..m :
          /\ rp.queued[i] \in DOMAIN cmds
          /\ cmds[rp.queued[i]].user_id = rp.user
          /\ cmds[rp.queued[i]].command = rp.hist[i].command
          /\ \A c \in Originals : rp.queued[i] > c
          /\ \A j \in 1..m : i < j => rp.queued[i] < rp.queued[j]

\* C21: when replay(user, S) returns, with K commands of the user having
\* id >= S when it started, the store holds exactly K new commands from the
\* replay: pending, owned by the user, with fresh ids, carrying the texts
\* of those K originals in ascending order of the original ids.
C21_ReplayResubmitsInOrder ==
    [][(rp.pc = "run" /\ rp'.pc = "done") =>
          LET orig == Matching(rp.user, rp.start)
          IN /\ Len(rp.hist) = Len(orig)
             /\ \A i \in 1..Len(orig) :
                   /\ rp.hist[i].id = orig[i]
                   /\ rp.hist[i].command = cmds[orig[i]].command
             /\ QueuedIsPrefix(Len(orig))
             /\ \A i \in 1..Len(orig) : cmds[rp.queued[i]].status = "pending"
             /\ cmds' = cmds]_vars

\* A replay has returned after resubmitting two different texts while the
\* store also holds a command of another user and one of another client.
C21_Witness ==
    /\ rp.pc = "done"
    /\ rp.report = "Replayed commands"
    /\ \E c \in Resubmitted(cmds), d \in Resubmitted(cmds) :
          /\ c < d
          /\ cmds[c].command # cmds[d].command
          /\ \E o \in Originals : cmds[o].user_id # cmds[c].user_id
          /\ \E o \in Originals : cmds[o].user_id = cmds[c].user_id /\ cmds[o].command # cmds[c].command
    /\ \E x \in DOMAIN cmds : cmds[x].command = T_x

\* C22: while replay runs and after it was interrupted, the commands it has
\* queued are the first rp.total originals of its history, in order, each
\* committed once.
C22_InterruptedReplayLeavesPrefix ==
    rp.pc \in {"run", "interrupted"} =>
        /\ rp.total = rp.idx - 1
        /\ QueuedIsPrefix(rp.total)

\* A replay was interrupted after the first and before the last of its
\* resubmissions.
C22_Witness ==
    /\ rp.pc = "interrupted"
    /\ Len(rp.queued) > 0
    /\ Len(rp.queued) < Len(rp.hist)
    /\ seq > Len(rp.queued) + Cardinality(Originals)

\* C23: when no command of the user has id >= S, replay(user, S) returns
\* with the report "no commands to replay", has committed nothing on the
\* submission connection and has created no command; with K > 0 the report
\* is a different one.
C23_EmptyReplay ==
    [][(rp.pc = "run" /\ rp'.pc = "done") =>
          IF Matching(rp.user, rp.start) = <<>>
          THEN /\ rp'.report = "no commands to replay"
               /\ rp.total = 0
               /\ rp.queued = <<>>
               /\ Resubmitted(cmds') = {}
               /\ txn'["replay"] = Null
          ELSE rp'.report # "no commands to replay"]_vars

\* A replay found nothing although the store holds commands.
C23_Witness ==
    /\ rp.pc = "done"
    /\ rp.report = "no commands to replay"
    /\ Originals # {}
    /\ Resubmitted(cmds) = {}

(***************************************************************************)
(* Properties of the loop of main: when a worker waits, and on which       *)
(* channel.                                                                *)
(***************************************************************************)
\* The pending commands fetch_pending of worker w could return.
AvailablePending(w) == {c \in PendingRows : ~LockedByOther(w, c)}

\* C29: a worker starts to wait on its socket only when no pending command
\* is there that it could dequeue.
C29_WaitsOnlyWhenDrained ==
    [][\A w \in Workers :
          (pc[w] # "wait" /\ pc'[w] = "wait") =>
              /\ pc[w] = "no_row"
              /\ AvailablePending(w) = {}]_vars

\* C30: every running worker listens on the channel submissions are
\* published on.
C30_WorkersFollowChannel ==
    \A w \in Workers :
        pc[w] \notin {"start", "crashed"} => listen[w] = ConfiguredChannel

(***************************************************************************)
(* The worker process when the store fails: get_conn raises RuntimeError   *)
(* when it cannot connect, and a statement, commit or poll on a lost       *)
(* connection raises a psycopg2 error.  main catches neither; its finally  *)
(* clause closes the connection, and only KeyboardInterrupt is caught      *)
(* around main.                                                            *)
(***************************************************************************)
\* The positions of main at which the worker uses its connection.
StorePositions == {"start", "fetch", "no_row", "locked", "wait", "handle", "cd_done"}

\* The store forgets the session of worker w: its open transaction is
\* rolled back and its row lock released.
DropSession(w) ==
    /\ locked' = [locked EXCEPT ![w] = 0]
    /\ row' = [row EXCEPT ![w] = Null]
    /\ CloseConn(w)

\* main, line 264: get_conn() raises; no connection was opened.
StartFails(w) ==
    /\ pc[w] = "start"
    /\ pc' = [pc EXCEPT ![w] = "crashed"]
    /\ UNCHANGED <<tail, cl, forkReply, sub, submitEnv, now, seq, cmds, envs, config, txn, locked, row, listen,
                   sock, rp, fetchCount, execlog>>

\* (variant: the loop logs the error and goes on with the next dequeue)
StoreFails_Retries(w) ==
    /\ pc[w] \in StorePositions
    /\ pc' = [pc EXCEPT ![w] = "fetch"]
    /\ locked' = [locked EXCEPT ![w] = 0]
    /\ row' = [row EXCEPT ![w] = Null]
    /\ UNCHANGED <<listen, sock>>
    /\ UNCHANGED <<tail, cl, forkReply, sub, submitEnv, now, seq, cmds, envs, config, txn, rp, fetchCount, execlog>>

\* main, lines 265-274: setup_listener, fetch_pending, handle_command or
\* wait_for_notify raises a store error; finally: conn.close(); the
\* exception leaves main.
StoreFails(w) ==
    /\ pc[w] \in StorePositions
    /\ pc' = [pc EXCEPT ![w] = "crashed"]
    /\ DropSession(w)
    /\ UNCHANGED <<tail, cl, forkReply, sub, submitEnv, now, seq, cmds, envs, config, txn, rp, fetchCount, execlog>>

\* (variant: a worker that is interrupted hands its command back to the queue)
Interrupt_Requeues(w) ==
    /\ pc[w] \in StorePositions \ {"start"}
    /\ pc' = [pc EXCEPT ![w] = "stopped"]
    /\ DropSession(w)
    /\ cmds' = IF pc[w] \in {"handle", "cd_done"} /\ The(row[w]).id \in DOMAIN cmds
               THEN [cmds EXCEPT ![The(row[w]).id].status = "pending"]
               ELSE cmds
    /\ UNCHANGED <<tail, cl, forkReply, sub, submitEnv, now, seq, envs, config, txn, rp, fetchCount, execlog>>

\* lines 277-281: KeyboardInterrupt anywhere in main; finally: conn.close();
\* the interrupt is caught around main.
Interrupt(w) ==
    /\ pc[w] \in StorePositions \ {"start"}
    /\ pc' = [pc EXCEPT ![w] = "stopped"]
    /\ DropSession(w)
    /\ UNCHANGED <<tail, cl, forkReply, sub, submitEnv, now, seq, cmds, envs, config, txn, rp, fetchCount, execlog>>

\* The exit status of the worker process, once it has ended: 1 for an
\* exception that left main, 0 after a caught KeyboardInterrupt.
ExitStatus(w) ==
    IF pc[w] = "crashed" THEN Some(1)
    ELSE IF pc[w] = "stopped" THEN Some(0)
    ELSE Null

FailNext ==
    \/ Next
    \/ \E w \in Workers : StartFails(w)
    \/ \E w \in Workers : StoreFails(w)
    \/ \E w \in Workers : Interrupt(w)

FailSpec == Init /\ [][FailNext]_vars

\* C28: a failure to connect at start-up or of a store operation in the
\* loop ends the worker: it takes no further step and does not retry, its
\* connection is closed (no subscription, nothing to read, no lock left in
\* the store) and the process's exit status is 1.
C28_StoreFailureEndsWorker ==
    [][\A w \in Workers :
          /\ (StartFails(w) \/ StoreFails(w)) =>
                /\ ExitStatus(w)' = Some(1)
                /\ listen'[w] = NoValue
                /\ sock'[w] = {}
                /\ locked'[w] = 0
          /\ pc[w] = "crashed" =>
                /\ pc'[w] = "crashed"
                /\ listen'[w] = NoValue
                /\ sock'[w] = {}
                /\ locked'[w] = 0]_vars

\* Both workers have ended with status 1, one of them while it held a
\* command that it had dequeued and not yet handled.
C28_Witness ==
    /\ \A w \in Workers : ExitStatus(w) = Some(1)
    /\ \E c \in DOMAIN cmds : cmds[c].status = "running" /\ execlog[c] = {}
    /\ \E c \in DOMAIN cmds : cmds[c].status = "pending"

(***************************************************************************)
(* latest_output(user_id, since_id) and the client's tail_output, which    *)
(* polls it.  since_id is Null when the argument is omitted.               *)
(***************************************************************************)
\* (variant: the comparison with since_id is not strict)
LatestOutput_Inclusive(u, since) ==
    LET ids == SortedIds({c \in DOMAIN cmds :
                             /\ cmds[c].user_id = u
                             /\ (since = Null \/ c >= The(since))})
    IN [i \in 1..Len(ids) |-> cmds[ids[i]]]

\* The rows of user u with id > since_id, in ascending id order.
LatestOutput(u, since) ==
    LET ids == SortedIds({c \in DOMAIN cmds :
                             /\ cmds[c].user_id = u
                             /\ (since = Null \/ c > The(since))})
    IN [i \in 1..Len(ids) |-> cmds[ids[i]]]

\* tail_output, lines 168-171: what is printed for one row; the status of
\* the row is not looked at (it is kept here as what the client was given).
Printed(r) ==
    [id |-> r.id, command |-> r.command, output |-> r.output,
     exit_code |-> r.exit_code, status |-> r.status]

\* tail_output, lines 167-173: last_id after the loop over rows.
RECURSIVE LastIdAfter(_, _)
LastIdAfter(last, rows) ==
    IF rows = <<>> THEN last
    ELSE LastIdAfter(IF last = Null \/ Head(rows).id > The(last)
                     THEN Some(Head(rows).id) ELSE last,
                     Tail(rows))

\* tail_output(base_url, user_id, since=since), lines 145-149.
TailStart(u, since) ==
    /\ tail.pc = "idle"
    /\ tail' = [pc |-> "poll", user |-> u, since |-> since, last_id |-> since,
                printed |-> <<>>]
    /\ UNCHANGED <<cl, forkReply, sub, submitEnv, now, seq, cmds, envs, config, txn, locked, pc, row,
                   listen, sock, rp, fetchCount, execlog>>

\* One round of the loop, lines 152-173: the request, the print of every
\* row of the reply and the new last_id; then the sleep of line 180.
TailPoll ==
    /\ tail.pc = "poll"
    /\ LET rows == LatestOutput(tail.user, tail.last_id)
       IN tail' = [tail EXCEPT
                      !.printed = @ \o [i \in 1..Len(rows) |-> Printed(rows[i])],
                      !.last_id = LastIdAfter(@, rows)]
    /\ UNCHANGED <<cl, forkReply, sub, submitEnv, now, seq, cmds, envs, config, txn, locked, pc, row,
                   listen, sock, rp, fetchCount, execlog>>

\* lines 162-164: the request fails; "tail failed" and return 1.
TailRequestFails ==
    /\ tail.pc = "poll"
    /\ tail' = [tail EXCEPT !.pc = "failed"]
    /\ UNCHANGED <<cl, forkReply, sub, submitEnv, now, seq, cmds, envs, config, txn, locked, pc, row,
                   listen, sock, rp, fetchCount, execlog>>

\* lines 175-184: max_polls is used up or the user interrupts; return 0.
TailReturn ==
    /\ tail.pc = "poll"
    /\ tail' = [tail EXCEPT !.pc = "returned"]
    /\ UNCHANGED <<cl, forkReply, sub, submitEnv, now, seq, cmds, envs, config, txn, locked, pc, row,
                   listen, sock, rp, fetchCount, execlog>>

MaxTailIds == 3

TailIds == 1..MaxTailIds

SinceIds == {Null} \cup {Some(n) : n \in 0..MaxTailIds}

TailInit ==
    /\ now = 0
    /\ seq = 0
    /\ cmds = <<>>
    /\ envs = [u \in Users |-> Null]
    /\ config = Null
    /\ txn = [k \in Conns |-> Null]
    /\ locked = [w \in Workers |-> 0]
    /\ pc = [w \in Workers |-> "start"]
    /\ row = [w \in Workers |-> Null]
    /\ listen = [w \in Workers |-> NoValue]
    /\ sock = [w \in Workers |-> {}]
    /\ rp = NoReplay
    /\ fetchCount = [c \in TailIds |-> 0]
    /\ execlog = [c \in TailIds |-> {}]
    /\ submitEnv = [c \in TailIds |-> Null]
    /\ forkReply = NoValue
    /\ tail = NoTail
    /\ cl = NoCleanup
    /\ sub = NoSub

TailNext ==
    \/ \E u \in Users, text \in CommandTexts : ApiSubmit(u, text)
    \/ ApiCommit
    \/ Working(OpsWorkers)
    \/ \E u \in Users, since \in SinceIds : TailStart(u, since)
    \/ TailPoll
    \/ TailRequestFails
    \/ TailReturn

TailSpec == TailInit /\ [][TailNext]_vars

\* C24: latest_output(u, since) is the commands of u with id > since (all
\* of them when since is omitted), each as it is stored now whatever its
\* status, in strictly ascending id order, and nothing else.
C24_LatestOutput ==
    \A u \in Users, since \in SinceIds :
        LET r == LatestOutput(u, since)
        IN /\ \A i \in 1..Len(r) :
                 /\ r[i].id \in DOMAIN cmds
                 /\ r[i] = cmds[r[i].id]
                 /\ r[i].user_id = u
                 /\ since # Null => r[i].id > The(since)
           /\ \A i \in 1..Len(r), j \in 1..Len(r) : i < j => r[i].id < r[j].id
           /\ \A c \in DOMAIN cmds :
                 (cmds[c].user_id = u /\ (since = Null \/ c > The(since)))
                     => \E i \in 1..Len(r) : r[i].id = c

\* A client that asked for the rows after an id of its user was given a
\* later row of that user that had not terminated, while the store also
\* holds a later row of the other user.
C24_Witness ==
    /\ tail.since # Null
    /\ The(tail.since) \in DOMAIN cmds
    /\ cmds[The(tail.since)].user_id = tail.user
    /\ \E i \in 1..Len(tail.printed) : ~Terminal(tail.printed[i].status)
    /\ \E c \in DOMAIN cmds : c > The(tail.since) /\ cmds[c].user_id # tail.user

\* C27: tail_output prints only rows it was given in a terminal status,
\* prints no command twice, and its since-id is never at or beyond a
\* command of its user that it has not printed.
C27_TailPrintsTerminalOnce ==
    /\ \A i \in 1..Len(tail.printed) : Terminal(tail.printed[i].status)
    /\ \A i \in 1..Len(tail.printed), j \in 1..Len(tail.printed) :
          i # j => tail.printed[i].id # tail.printed[j].id
    /\ \A c \in DOMAIN cmds :
          (/\ cmds[c].user_id = tail.user
           /\ tail.last_id # Null
           /\ c <= The(tail.last_id)
           /\ (tail.since = Null \/ c > The(tail.since)))
              => \E i \in 1..Len(tail.printed) : tail.printed[i].id = c

(***************************************************************************)
(* cleanup_once statement by statement, next to a worker that handles a cd *)
(* and to fork_session.  The store holds commands of any status and age    *)
(* and environments of any age; worker w1 has dequeued command 1, a cd.    *)
(* The statements of cleanup_once take effect in the order they are run;   *)
(* its thresholds use now() of its transaction.                            *)
(***************************************************************************)
MaxAge == 2

Ages == 0..MaxAge

DaysArgs == {0, 1}

Statuses == {"pending", "running", "done", "failed"}

\* (variant: the DELETE does not look at the status)
OldDoneAt_AnyStatus(at, days) ==
    {c \in DOMAIN cmds : cmds[c].submitted_at < at - days}

\* lines 15-17: WHERE status = 'done' AND submitted_at < now() - days
OldDoneAt(at, days) ==
    {c \in DOMAIN cmds : cmds[c].status = "done" /\ cmds[c].submitted_at < at - days}

\* lines 27-28: WHERE updated_at < now() - days
StaleUsersAt(at, days) ==
    {u \in Users : envs[u] # Null /\ The(envs[u]).updated_at < at - days}

\* lines 13-23: the DELETE.
CleanupDelete(days) ==
    /\ cl.pc = "idle"
    /\ cmds' = [c \in DOMAIN cmds \ OldDoneAt(now, days) |-> cmds[c]]
    /\ cl' = [pc |-> "deleted", days |-> days, at |-> now, user_ids |-> {}]
    /\ UNCHANGED <<tail, forkReply, sub, submitEnv, now, seq, envs, config, txn, locked, pc, row, listen,
                   sock, rp, fetchCount, execlog>>

\* lines 25-32: the SELECT of the stale environments.
CleanupSelect ==
    /\ cl.pc = "deleted"
    /\ cl' = [cl EXCEPT !.pc = "resetting", !.user_ids = StaleUsersAt(cl.at, cl.days)]
    /\ UNCHANGED <<tail, forkReply, sub, submitEnv, now, seq, cmds, envs, config, txn, locked, pc, row,
                   listen, sock, rp, fetchCount, execlog>>

\* lines 33-42: the UPDATE for one of the selected users.
CleanupReset ==
    /\ cl.pc = "resetting"
    /\ \E uid \in cl.user_ids :
          /\ envs' = [envs EXCEPT ![uid] =
                         IF @ = Null THEN @
                         ELSE Some([cwd |-> SandboxHome, env |-> EmptyEnv,
                                    updated_at |-> cl.at])]
          /\ cl' = [cl EXCEPT !.user_ids = @ \ {uid}]
    /\ UNCHANGED <<tail, forkReply, sub, submitEnv, now, seq, cmds, config, txn, locked, pc, row, listen,
                   sock, rp, fetchCount, execlog>>

\* line 43: conn.commit().
CleanupCommit ==
    /\ cl.pc = "resetting"
    /\ cl.user_ids = {}
    /\ cl' = [cl EXCEPT !.pc = "done"]
    /\ UNCHANGED <<tail, forkReply, sub, submitEnv, now, seq, cmds, envs, config, txn, locked, pc, row,
                   listen, sock, rp, fetchCount, execlog>>

CleanupEnvRows ==
    {Null} \cup {Some([cwd |-> T_home_sandbox_sub, env |-> FooEnv, updated_at |-> a]) :
                     a \in Ages}

CleanupInit ==
    /\ \E u1 \in Users, u2 \in Users, a1 \in Ages, a2 \in Ages, st \in Statuses :
          /\ cmds = (1 :> [DequeuedRow(u1, T_cd_root, SandboxHome, EmptyEnv)
                              EXCEPT !.status = "running", !.submitted_at = a1])
                    @@ (2 :> [DequeuedRow(u2, T_ls, SandboxHome, EmptyEnv)
                                 EXCEPT !.id = 2, !.status = st, !.submitted_at = a2,
                                        !.output = IF Terminal(st) THEN Some(<<>>) ELSE Null,
                                        !.exit_code = IF st = "done" THEN Some(0)
                                                      ELSE IF st = "failed" THEN Some(1)
                                                      ELSE Null])
          /\ row = [w \in Workers |->
                      IF w = "w1"
                      THEN Some([DequeuedRow(u1, T_cd_root, SandboxHome, EmptyEnv)
                                    EXCEPT !.submitted_at = a1])
                      ELSE Null]
    /\ envs \in [Users -> CleanupEnvRows]
    /\ now = MaxAge
    /\ seq = 2
    /\ config = Null
    /\ txn = [k \in Conns |-> Null]
    /\ locked = [w \in Workers |-> 0]
    /\ pc = [w \in Workers |-> IF w = "w1" THEN "handle" ELSE "start"]
    /\ listen = [w \in Workers |-> IF w = "w1" THEN DEFAULT_LISTEN_CHANNEL ELSE NoValue]
    /\ sock = [w \in Workers |-> {}]
    /\ rp = NoReplay
    /\ fetchCount = [c \in CmdIds |-> IF c = 1 THEN 1 ELSE 0]
    /\ execlog = [c \in CmdIds |-> {}]
    /\ submitEnv = [c \in CmdIds |-> Some([cwd |-> SandboxHome, env |-> EmptyEnv])]
    /\ forkReply = NoValue
    /\ tail = NoTail
    /\ cl = NoCleanup
    /\ sub = NoSub

CleanupNext ==
    \/ \E d \in DaysArgs : CleanupDelete(d)
    \/ CleanupSelect
    \/ CleanupReset
    \/ CleanupCommit
    \/ HandleCommand("w1")
    \/ HandleCdDone("w1")
    \/ \E u \in Users, c \in CmdIds : ForkSession(u, c)

CleanupSpec == CleanupInit /\ [][CleanupNext]_vars

\* C25: the DELETE of cleanup_once(days) removes exactly the commands that
\* are done and were submitted before now() - days, and leaves the others
\* (pending, running, failed of any age, done and newer) as they are; no
\* other statement of cleanup_once touches a command.
C25_DeletesOldDoneOnly ==
    [][/\ (cl.pc = "idle" /\ cl'.pc = "deleted") =>
             /\ DOMAIN cmds' =
                   {c \in DOMAIN cmds :
                       ~(cmds[c].status = "done" /\ cmds[c].submitted_at < now - cl'.days)}
             /\ \A c \in DOMAIN cmds' : cmds'[c] = cmds[c]
       /\ (cl' # cl /\ cl.pc # "idle") => cmds' = cmds]_vars

\* A cleanup has ended that kept a failed command older than the threshold
\* and deleted the done command.
C25_Witness ==
    /\ cl.pc = "done"
    /\ DOMAIN cmds = {2}
    /\ cmds[2].status = "failed"
    /\ cmds[2].submitted_at < cl.at - cl.days

\* C26: an UPDATE of cleanup_once resets an environment only if its last
\* update is older than the threshold at that moment, also when a cd or a
\* fork for the user has committed since cleanup_once started.
C26_ResetsStaleOnly ==
    [][(cl.pc = "resetting" /\ cl'.user_ids # cl.user_ids) =>
          \A u \in Users :
              envs'[u] # envs[u] =>
                  /\ envs[u] # Null
                  /\ The(envs[u]).updated_at < cl.at - cl.days
                  /\ envs'[u] = Some([cwd |-> SandboxHome, env |-> EmptyEnv,
                                      updated_at |-> cl.at])]_vars

(***************************************************************************)
(* run_subprocess with a running executor: the loop of lines 161-179 and   *)
(* proc.wait() take their next step (select returns after 0.1 s at the     *)
(* latest).  Nothing is assumed of the child.                              *)
(***************************************************************************)
ExecutorStep == LoopTop \/ SelectRead \/ ProcWait

SubLiveSpec == SubSpec /\ WF_vars(ExecutorStep)

\* C31: the output buffer never holds more than MAX_OUTPUT_BYTES; every
\* round of the loop takes what a ready stream holds out of its pipe, full
\* buffer or not; so a full pipe of a stream is always emptied again, and
\* once the child has exited and its streams are closed the loop ends.
C31_DrainsPastCap ==
    /\ [](sub.output <= MAX_OUTPUT_BYTES)
    /\ [][(sub.pc = "select" /\ sub'.pc = "top") =>
             \A f \in Ready(sub) :
                 sub'.buf[f] = sub.buf[f] - Min(sub.buf[f], ReadChunk)]_vars
    /\ \A f \in {"stdout", "stderr"} :
          (sub.buf[f] = PipeCapacity) ~> (sub.buf[f] < PipeCapacity)
    /\ (~sub.alive /\ sub.open = {}) ~> (sub.pc \in {"wait", "done"})

\* The buffer is full and marked as exceeded while the child still runs and
\* has filled a pipe again.
C31_Witness ==
    /\ sub.output = MAX_OUTPUT_BYTES
    /\ sub.limit_exceeded
    /\ sub.alive
    /\ \E f \in sub.fds : sub.buf[f] = PipeCapacity

(***************************************************************************)
(* A worker that ends between fetch_pending's commit and update_command:   *)
(* the workers with their failures, next to cleanup_once and               *)
(* fork_session.                                                           *)
(***************************************************************************)
StrandNext ==
    \/ FailNext
    \/ \E d \in CleanupDays : CleanupOnce(d)
    \/ \E u \in Users, c \in CmdIds : ForkSession(u, c)

StrandSpec == Init /\ [][StrandNext]_vars

\* Worker w has fetched command c and not yet recorded its result.
Holds(w, c) ==
    /\ pc[w] \in {"handle", "cd_done"}
    /\ row[w] # Null
    /\ The(row[w]).id = c

\* Command c is running and no worker holds it.
Stranded(c) ==
    /\ c \in DOMAIN cmds
    /\ cmds[c].status = "running"
    /\ \A w \in Workers : ~Holds(w, c)

\* C32: a command whose worker stops after fetch_pending has committed it as
\* running and before update_command is still running after that step, and
\* from then on every step leaves it in the table as it is: it is not
\* deleted, its status, output and exit code do not change, and no worker
\* fetches it.
C32_StrandedStaysRunning ==
    [][\A c \in DOMAIN cmds :
          /\ (\E w \in Workers : Holds(w, c) /\ pc'[w] \in {"crashed", "stopped"}) =>
                Stranded(c)'
          /\ Stranded(c) =>
                /\ Stranded(c)'
                /\ cmds'[c] = cmds[c]
                /\ fetchCount'[c] = fetchCount[c]
                /\ \A w \in Workers : locked'[w] # c]_vars

\* A stranded command that is older than the cleanup horizon, after a
\* cleanup that deleted a done command, while a worker is still running.
C32_Witness ==
    \E c \in CmdIds :
        /\ Stranded(c)
        /\ cmds[c].submitted_at < now
        /\ DOMAIN cmds = {c}
        /\ seq = MaxCmds
        /\ \E w \in Workers : pc[w] \in {"fetch", "wait"}

C34_DoneCdHasEnvironment ==
    \A c \in DOMAIN cmds :
        (cmds[c].status = "done" /\ \E e \in execlog[c] : e.kind = "cd") =>
            /\ envs[cmds[c].user_id] # Null
            /\ The(envs[cmds[c].user_id]).cwd = CdTarget(cmds[c])

(***************************************************************************)
(* replay_commands as a running process: it takes its next step, while     *)
(* its user submits.  The submissions the replay still has to make keep    *)
(* their place among the ids the model follows.                            *)
(***************************************************************************)
\* The rows of the history the loop has not yet resubmitted and committed.
ReplayRemaining ==
    Len(rp.hist) - rp.idx + 1 - (IF txn["replay"] # Null THEN 1 ELSE 0)

\* The user of the replay submits through another client while it runs.
ClientSubmit ==
    /\ rp.pc = "run"
    /\ seq + 1 + ReplayRemaining \in ReplayIds
    /\ ApiSubmit(rp.user, T_x)

ReplayStep == ReplaySubmit \/ ReplayCommit \/ ReplayFinish

ReplayLiveNext ==
    \/ \E u \in Users, s \in 1..(MaxHistory + 1) : rp.pc = "idle" /\ ReplayStart(u, s)
    \/ ReplaySubmit
    \/ ReplayCommit
    \/ ReplayFinish
    \/ ClientSubmit
    \/ ApiCommit

ReplayLiveSpec == ReplayInit /\ [][ReplayLiveNext]_vars /\ WF_vars(ReplayStep)

\* C35: a replay that runs reaches its end; while it runs, the rows it
\* works through are those its history query returned, whatever is
\* submitted meanwhile; and when it ends it has resubmitted exactly as many
\* commands as matched when it started, every row it read being one that
\* was stored before it started.
C35_ReplayTerminates ==
    /\ (rp.pc = "run") ~> (rp.pc = "done")
    /\ [][(rp.pc = "run" /\ rp'.pc = "run") =>
              /\ rp'.hist = rp.hist
              /\ rp'.user = rp.user
              /\ rp'.start = rp.start]_vars
    /\ [][(rp.pc = "run" /\ rp'.pc = "done") =>
              /\ rp.total = Len(Matching(rp.user, rp.start))
              /\ \A i \in 1..Len(rp.hist) :
                    /\ rp.hist[i].id \in Originals
                    /\ rp.hist[i].id \notin Range(rp.queued)]_vars

\* A replay has ended after two resubmissions, and between the two the
\* same user submitted a command through another client.
C35_Witness ==
    /\ rp.pc = "done"
    /\ \E c \in Resubmitted(cmds), d \in Resubmitted(cmds), x \in DOMAIN cmds :
          /\ c < x
          /\ x < d
          /\ cmds[x].command = T_x
          /\ cmds[x].user_id = cmds[c].user_id
          /\ cmds[d].user_id = cmds[c].user_id


====
